---------------------------- MODULE Spec2Model ----------------------------
(***************************************************************************)
(* Model of the capital-allocation and risk engine of polymarket-agents:   *)
(*   agents/portfolio/allocator.py      PortfolioAllocator                 *)
(*   agents/portfolio/risk_manager.py   RiskManager                        *)
(*   agents/stages/opportunity_analyzer.py  OpportunityAnalyzer            *)
(*                                                                         *)
(* Numbers.  The program computes in Python floats.  The model computes in *)
(* exact rationals [n |-> numerator, d |-> denominator > 0] kept in lowest *)
(* terms, so two rationals are equal exactly when their records are equal. *)
(* Rounding error of floats (the spec's tolerance epsilon) is therefore    *)
(* outside the model; everything else (comparisons, clamping, division by  *)
(* zero raising ZeroDivisionError) is as in the code.                      *)
(*                                                                         *)
(* Calls.  An operation of an object is one action.  The object's fields   *)
(* are variables; the value a call returns (or the exception it raises)    *)
(* is recorded, with the call's arguments, in the variable ret.            *)
(***************************************************************************)
EXTENDS Integers, Sequences, FiniteSets, TLC

VARIABLES
    strategy_type,      \* PortfolioAllocator.strategy_type
    total_capital,      \* PortfolioAllocator.total_capital
    config,             \* PortfolioAllocator.config
    portfolio_history,  \* RiskManager.portfolio_history
    peak_value,         \* RiskManager.peak_value
    current_drawdown,   \* RiskManager.current_drawdown
    max_drawdown,       \* RiskManager.max_drawdown
    fed,                \* history variable: values of the update calls that returned
    ret,                \* the last call: operation, arguments, result
    strategies,         \* StrategyTester.strategies: strategy instances side by side
    trader_strategy_type \* EnhancedTrader.strategy_type; EnhancedTrader.strategy
                        \* is the engine of the variables above

allocator_vars == <<strategy_type, total_capital, config>>
risk_vars == <<portfolio_history, peak_value, current_drawdown, max_drawdown, fed>>
vars == <<strategy_type, total_capital, config, portfolio_history, peak_value,
          current_drawdown, max_drawdown, fed, ret, strategies,
          trader_strategy_type>>

----------------------------------------------------------------------------
(* Exact rational arithmetic                                               *)

IAbs(i) == IF i < 0 THEN -i ELSE i

RECURSIVE GCD(_, _)
GCD(a, b) == IF b = 0 THEN a ELSE GCD(b, a % b)

\* n/d in lowest terms, d # 0
Rat(n, d) ==
    LET s == IF d < 0 THEN -1 ELSE 1
        g == GCD(IAbs(n), IAbs(d))
    IN  [n |-> (s * n) \div g, d |-> (s * d) \div g]

Zero == Rat(0, 1)
One == Rat(1, 1)
FromInt(i) == Rat(i, 1)

\* the operations reduce before they multiply, which keeps the intermediate
\* products small
Add(a, b) ==
    LET g == GCD(a.d, b.d)
    IN  Rat(a.n * (b.d \div g) + b.n * (a.d \div g), (a.d \div g) * b.d)
Neg(a) == [n |-> -a.n, d |-> a.d]
Sub(a, b) == Add(a, Neg(b))
Mul(a, b) ==
    LET g1 == GCD(IAbs(a.n), b.d)
        g2 == GCD(IAbs(b.n), a.d)
    IN  Rat((a.n \div g1) * (b.n \div g2), (a.d \div g2) * (b.d \div g1))
\* b # 0: the callers raise ZeroDivisionError before dividing by zero
Div(a, b) == Mul(a, Rat(b.d, b.n))
Lt(a, b) ==
    LET g == GCD(a.d, b.d)
    IN  a.n * (b.d \div g) < b.n * (a.d \div g)
Le(a, b) ==
    LET g == GCD(a.d, b.d)
    IN  a.n * (b.d \div g) <= b.n * (a.d \div g)
Gt(a, b) == Lt(b, a)
Ge(a, b) == Le(b, a)
RAbs(a) == [n |-> IAbs(a.n), d |-> a.d]
RMin(a, b) == IF Le(a, b) THEN a ELSE b
RMax(a, b) == IF Ge(a, b) THEN a ELSE b
IsZero(a) == a.n = 0

\* A dict is a function from its keys.  Table(f) is f itself: it only makes TLC
\* hold the function as an explicit table instead of evaluating the
\* constructor's body anew at each application.
Table(f) == f @@ << >>

\* sum(abs(f[k]) for k in DOMAIN f), sum(f[k] ...): sums over a dict's values
RECURSIVE SumOver(_, _)
SumOver(f, S) ==
    IF S = {} THEN Zero
    ELSE LET k == CHOOSE x \in S : TRUE
         IN  Add(f[k], SumOver(f, S \ {k}))

SumAbs(f) == SumOver(Table([k \in DOMAIN f |-> RAbs(f[k])]), DOMAIN f)

----------------------------------------------------------------------------
(* PortfolioAllocator                                                      *)

StrategyNames == {"conservative", "balanced", "aggressive"}

\* PortfolioAllocator.__init__: self.strategy_config
strategy_config(s) ==
    CASE s = "conservative" ->
           [kelly_safety_factor |-> Rat(25, 100), max_position_size |-> Rat(15, 100),
            max_total_allocation |-> Rat(70, 100), min_edge_threshold |-> Rat(10, 100),
            min_confidence |-> 7]
      [] s = "balanced" ->
           [kelly_safety_factor |-> Rat(50, 100), max_position_size |-> Rat(20, 100),
            max_total_allocation |-> Rat(80, 100), min_edge_threshold |-> Rat(5, 100),
            min_confidence |-> 5]
      [] s = "aggressive" ->
           [kelly_safety_factor |-> Rat(75, 100), max_position_size |-> Rat(30, 100),
            max_total_allocation |-> Rat(90, 100), min_edge_threshold |-> Rat(3, 100),
            min_confidence |-> 4]

\* faulty variant: an unknown name falls back to the balanced preset
LookupStrategyConfig_Default(name) ==
    IF name \in StrategyNames
    THEN [raised |-> FALSE, config |-> strategy_config(name)]
    ELSE [raised |-> FALSE, config |-> strategy_config("balanced")]

\* PortfolioAllocator.__init__: self.strategy_config[strategy_type], a KeyError
\* for a name that is no key
LookupStrategyConfig(name) ==
    IF name \in StrategyNames
    THEN [raised |-> FALSE, config |-> strategy_config(name)]
    ELSE [raised |-> TRUE, error |-> "KeyError"]

\* EnhancedTrader._initialize_strategy: the strategy class of a name, whose
\* __init__ hands its own name to PortfolioAllocator; ValueError otherwise
InitializeStrategy(strategy_type_) ==
    IF strategy_type_ = "conservative" THEN LookupStrategyConfig("conservative")
    ELSE IF strategy_type_ = "balanced" THEN LookupStrategyConfig("balanced")
    ELSE IF strategy_type_ = "aggressive" THEN LookupStrategyConfig("aggressive")
    ELSE [raised |-> TRUE, error |-> "ValueError"]

\* the two ways the engine is constructed
Constructed(path, name) ==
    IF path = "EnhancedTrader" THEN InitializeStrategy(name)
    ELSE LookupStrategyConfig(name)

\* faulty variant: the minimum-edge check is missing
FilterPasses_NoEdgeCheck(opp, cfg) ==
    /\ ~ (opp.confidence < cfg.min_confidence)
    /\ ~ Lt(opp.liquidity_score, Rat(5, 10))

\* _filter_opportunities: the opportunities that pass the strategy criteria, in order
FilterPasses(opp, cfg) ==
    /\ ~ Lt(RAbs(opp.edge), cfg.min_edge_threshold)
    /\ ~ (opp.confidence < cfg.min_confidence)
    /\ ~ Lt(opp.liquidity_score, Rat(5, 10))

FilterOpportunities(opps, cfg) == SelectSeq(opps, LAMBDA o : FilterPasses(o, cfg))

\* the `continue` of _calculate_kelly_positions
DegeneratePrice(opp) == Le(opp.current_price, Zero) \/ Ge(opp.current_price, One)

\* faulty variant: the Kelly fraction divides by the odds, not by the net odds
KellyPosition_GrossOdds(opp, cfg, capital) ==
    LET odds == Div(One, opp.current_price)
        kelly_fraction == Div(RAbs(opp.edge), odds)
        position_size == Mul(Mul(kelly_fraction, cfg.kelly_safety_factor), capital)
    IN  IF Gt(opp.edge, Zero) THEN position_size ELSE Neg(position_size)

\* faulty variant: the safety factor divides the Kelly fraction instead of scaling it
KellyPosition_DividedFactor(opp, cfg, capital) ==
    LET odds == Div(One, opp.current_price)
        kelly_fraction == Div(RAbs(opp.edge), Sub(odds, One))
        position_size == Mul(Div(kelly_fraction, cfg.kelly_safety_factor), capital)
    IN  IF Gt(opp.edge, Zero) THEN position_size ELSE Neg(position_size)

\* faulty variant: the direction is not applied, every position is long
KellyPosition_Unsigned(opp, cfg, capital) ==
    LET odds == Div(One, opp.current_price)
        kelly_fraction == Div(RAbs(opp.edge), Sub(odds, One))
    IN  Mul(Mul(kelly_fraction, cfg.kelly_safety_factor), capital)

\* one iteration of the loop of _calculate_kelly_positions, for a sized opportunity
KellyPosition(opp, cfg, capital) ==
    LET odds == Div(One, opp.current_price)
        kelly_fraction == IF Gt(opp.edge, Zero)
                          THEN Div(opp.edge, Sub(odds, One))
                          ELSE Div(RAbs(opp.edge), Sub(odds, One))
        safe_kelly == Mul(kelly_fraction, cfg.kelly_safety_factor)
        position_size == Mul(safe_kelly, capital)
    IN  IF Gt(opp.edge, Zero) THEN position_size ELSE Neg(position_size)

\* faulty variant: an opportunity of degenerate price is given a position of zero
\* instead of being skipped
CalculateKellyPositions_ZeroEntry(opps, cfg, capital) ==
    LET ids == {opps[i].market_id : i \in 1..Len(opps)}
        last(m) == CHOOSE i \in 1..Len(opps) :
                      /\ opps[i].market_id = m
                      /\ \A j \in 1..Len(opps) : opps[j].market_id = m => j <= i
    IN  Table([m \in ids |->
                  IF DegeneratePrice(opps[last(m)]) THEN Zero
                  ELSE KellyPosition(opps[last(m)], cfg, capital)])

\* _calculate_kelly_positions: dict market_id -> signed size; a later opportunity
\* of the same market overwrites an earlier one
CalculateKellyPositions(opps, cfg, capital) ==
    LET sized == {i \in 1..Len(opps) : ~ DegeneratePrice(opps[i])}
        ids == {opps[i].market_id : i \in sized}
        last(m) == CHOOSE i \in sized :
                      /\ opps[i].market_id = m
                      /\ \A j \in sized : opps[j].market_id = m => j <= i
    IN  Table([m \in ids |-> KellyPosition(opps[last(m)], cfg, capital)])

\* faulty variant: only the upper side is clamped, a short position keeps its size
CapPosition_UpperOnly(position, cfg, capital) ==
    RMin(Mul(cfg.max_position_size, capital), position)

\* first loop of _apply_position_limits
CapPosition(position, cfg, capital) ==
    LET max_position_value == Mul(cfg.max_position_size, capital)
    IN  RMax(Neg(max_position_value), RMin(max_position_value, position))

\* faulty variant: the aggregate scaling pass is missing
ApplyPositionLimits_ClampOnly(kelly_positions, cfg, capital) ==
    Table([m \in DOMAIN kelly_positions |->
              RMax(Neg(Mul(cfg.max_position_size, capital)),
                   RMin(Mul(cfg.max_position_size, capital), kelly_positions[m]))])

\* faulty variant: the per-position clamp is missing, only the aggregate is scaled
ApplyPositionLimits_ScaleOnly(kelly_positions, cfg, capital) ==
    LET total_allocated == SumAbs(kelly_positions)
        max_total_allocation == Mul(cfg.max_total_allocation, capital)
    IN  IF Gt(total_allocated, max_total_allocation)
        THEN Table([m \in DOMAIN kelly_positions |->
                      Mul(kelly_positions[m], Div(max_total_allocation, total_allocated))])
        ELSE kelly_positions

\* faulty variant: the total is taken over the positions before the clamp
ApplyPositionLimits_UnclampedTotal(kelly_positions, cfg, capital) ==
    LET capped == Table([m \in DOMAIN kelly_positions |->
                            CapPosition(kelly_positions[m], cfg, capital)])
        total_allocated == SumAbs(kelly_positions)
        max_total_allocation == Mul(cfg.max_total_allocation, capital)
    IN  IF Gt(total_allocated, max_total_allocation)
        THEN LET scale_factor == Div(max_total_allocation, total_allocated)
             IN  Table([m \in DOMAIN capped |-> Mul(capped[m], scale_factor)])
        ELSE capped

\* _apply_position_limits
ApplyPositionLimits(kelly_positions, cfg, capital) ==
    LET capped == Table([m \in DOMAIN kelly_positions |->
                            CapPosition(kelly_positions[m], cfg, capital)])
        total_allocated == SumAbs(capped)
        max_total_allocation == Mul(cfg.max_total_allocation, capital)
    IN  IF Gt(total_allocated, max_total_allocation)
        THEN LET scale_factor == Div(max_total_allocation, total_allocated)
             IN  Table([m \in DOMAIN capped |-> Mul(capped[m], scale_factor)])
        ELSE capped


\* _calculate_portfolio_metrics divides by current_price, 1 - current_price and
\* total_capital: Python raises ZeroDivisionError when one of them is zero
opp_lookup(opps, m) ==
    opps[CHOOSE i \in 1..Len(opps) :
            /\ opps[i].market_id = m
            /\ \A j \in 1..Len(opps) : opps[j].market_id = m => j <= i]

InLookup(opps, m) == \E i \in 1..Len(opps) : opps[i].market_id = m

MetricsRaises(allocations, opps, capital) ==
    /\ DOMAIN allocations # {}
    /\ \/ \E m \in DOMAIN allocations :
            /\ InLookup(opps, m)
            /\ IF Gt(allocations[m], Zero)
               THEN IsZero(opp_lookup(opps, m).current_price)
               ELSE IsZero(Sub(One, opp_lookup(opps, m).current_price))
       \/ IsZero(capital)

\* expected value of one bet in _calculate_portfolio_metrics
BetExpectedValue(bet_amount, opp) ==
    IF Gt(bet_amount, Zero)
    THEN LET expected_payout == Mul(bet_amount, Div(One, opp.current_price))
         IN  Sub(Mul(opp.estimated_probability, expected_payout), bet_amount)
    ELSE LET expected_payout ==
                 Mul(RAbs(bet_amount), Div(One, Sub(One, opp.current_price)))
         IN  Sub(Mul(Sub(One, opp.estimated_probability), expected_payout),
                 RAbs(bet_amount))

RECURSIVE RMaxOver(_, _)
RMaxOver(f, S) ==
    LET k == CHOOSE x \in S : TRUE
    IN  IF S = {k} THEN f[k] ELSE RMax(f[k], RMaxOver(f, S \ {k}))

\* _calculate_portfolio_metrics, when it does not raise.  sharpe_ratio is
\* expected_value / sqrt(variance), not a rational: the model keeps its two
\* rational ingredients and leaves the quotient out.
CalculatePortfolioMetrics(allocations, opps, capital) ==
    IF DOMAIN allocations = {}
    THEN [expected_value |-> Zero, variance |-> Zero,
          max_position_weight |-> Zero, concentration_ratio |-> Zero]
    ELSE LET known == {m \in DOMAIN allocations : InLookup(opps, m)}
             ev == Table([m \in known |->
                       BetExpectedValue(allocations[m], opp_lookup(opps, m))])
             var == Table([m \in known |->
                       LET x == Mul(allocations[m], opp_lookup(opps, m).volatility)
                       IN  Mul(x, x)])
             position_weights == Table([m \in DOMAIN allocations |->
                                    Div(RAbs(allocations[m]), capital)])
         IN  [expected_value |-> SumOver(ev, known),
              variance |-> SumOver(var, known),
              max_position_weight |-> RMaxOver(position_weights, DOMAIN allocations),
              concentration_ratio |->
                  SumOver(Table([m \in DOMAIN allocations |->
                             Mul(position_weights[m], position_weights[m])]),
                          DOMAIN allocations)]

\* the AllocationResult with nothing allocated (both early returns)
EmptyAllocation(capital) ==
    [allocations |-> << >>, unallocated_capital |-> capital,
     total_expected_value |-> Zero, risk_metrics |-> << >>]

\* faulty variant: the amounts are summed with their signs
Unallocated_Signed(capital, final_allocations) ==
    Sub(capital, SumOver(final_allocations, DOMAIN final_allocations))

\* what is left after the final allocations (allocate_capital, line 116)
Unallocated(capital, final_allocations) == Sub(capital, SumAbs(final_allocations))

\* allocate_capital: the AllocationResult, or raised = TRUE
AllocationOf(opps, cfg, capital) ==
    IF Len(opps) = 0
    THEN [raised |-> FALSE] @@ EmptyAllocation(capital)
    ELSE LET filtered_opportunities == FilterOpportunities(opps, cfg)
         IN  IF Len(filtered_opportunities) = 0
             THEN [raised |-> FALSE] @@ EmptyAllocation(capital)
             ELSE LET kelly_positions ==
                          CalculateKellyPositions(filtered_opportunities, cfg, capital)
                      final_allocations ==
                          ApplyPositionLimits(kelly_positions, cfg, capital)
                  IN  IF MetricsRaises(final_allocations, filtered_opportunities, capital)
                      THEN [raised |-> TRUE]
                      ELSE LET portfolio_metrics ==
                                   CalculatePortfolioMetrics(final_allocations,
                                       filtered_opportunities, capital)
                           IN  [raised |-> FALSE,
                                allocations |-> final_allocations,
                                unallocated_capital |->
                                    Unallocated(capital, final_allocations),
                                total_expected_value |-> portfolio_metrics.expected_value,
                                risk_metrics |-> portfolio_metrics]

----------------------------------------------------------------------------
(* OpportunityAnalyzer                                                     *)

\* agents/config.py OpportunityConfig: the defaults
opportunity_config ==
    [min_edge_for_report |-> Rat(5, 100),
     min_confidence_score |-> Rat(5, 10),
     min_opportunity_score |-> Rat(3, 100),
     source_quality_weight |-> Rat(25, 100),
     information_recency_weight |-> Rat(20, 100),
     consensus_weight |-> Rat(20, 100),
     base_rate_weight |-> Rat(20, 100),
     reasoning_clarity_weight |-> Rat(15, 100)]

RECURSIVE SumCredibility(_)
SumCredibility(sources) ==
    IF Len(sources) = 0 THEN 0
    ELSE Head(sources).credibility + SumCredibility(Tail(sources))

\* _calculate_confidence_score.  A source is [credibility, domain], the domain
\* being what url.split("/")[2] gives of its url.
CalculateConfidenceScore(research) ==
    LET avg_source_credibility ==
            IF Len(research.sources) > 0
            THEN Rat(SumCredibility(research.sources), Len(research.sources))
            ELSE Zero
        source_quality == Div(avg_source_credibility, FromInt(5))
        information_recency ==
            CASE research.information_quality = "HIGH" -> One
              [] research.information_quality = "MEDIUM" -> Rat(6, 10)
              [] research.information_quality = "LOW" -> Rat(3, 10)
        unique_domains ==
            Cardinality({research.sources[i].domain : i \in 1..Len(research.sources)})
        consensus_level == RMin(One, Rat(unique_domains, 5))
        base_rate_alignment ==
            CASE research.confidence_level = "HIGH" -> One
              [] research.confidence_level = "MEDIUM_HIGH" -> Rat(8, 10)
              [] research.confidence_level = "MEDIUM" -> Rat(6, 10)
              [] research.confidence_level = "LOW" -> Rat(4, 10)
        reasoning_clarity ==
            IF research.reasoning_length > 1000 THEN One
            ELSE IF research.reasoning_length > 500 THEN Rat(8, 10)
            ELSE IF research.reasoning_length > 200 THEN Rat(6, 10)
            ELSE Rat(4, 10)
        c == opportunity_config
    IN  [source_quality |-> source_quality,
         information_recency |-> information_recency,
         consensus_level |-> consensus_level,
         base_rate_alignment |-> base_rate_alignment,
         reasoning_clarity |-> reasoning_clarity,
         overall_score |->
             Add(Add(Add(Add(Mul(source_quality, c.source_quality_weight),
                             Mul(information_recency, c.information_recency_weight)),
                         Mul(consensus_level, c.consensus_weight)),
                     Mul(base_rate_alignment, c.base_rate_weight)),
                 Mul(reasoning_clarity, c.reasoning_clarity_weight))]

\* _generate_recommendation
GenerateRecommendation(model_prob, market_prob, edge, confidence) ==
    LET strength == IF Gt(edge, Rat(15, 100)) /\ Gt(confidence.overall_score, Rat(7, 10))
                    THEN "Strong" ELSE "Moderate"
    IN  IF Gt(model_prob, market_prob)
        THEN [action |-> <<strength, "BUY">>, outcome |-> "YES"]
        ELSE [action |-> <<strength, "BUY">>, outcome |-> "NO"]

\* the edge analyze_opportunity computes (line 50)
AnalyzerEdge(model_prob, market_prob) == RAbs(Sub(model_prob, market_prob))

\* faulty variant: the floor on the opportunity score is not checked
AnalyzeOpportunityResult_NoScoreFloor(market, research) ==
    LET model_prob == research.yes_probability
        market_prob == market.outcome_prices[1]
        edge == RAbs(Sub(model_prob, market_prob))
        confidence_score == CalculateConfidenceScore(research)
        liquidity_factor == RMin(One, Div(FromInt(market.liquidity), FromInt(10000)))
        recommendation ==
            GenerateRecommendation(model_prob, market_prob, edge, confidence_score)
    IN  IF Lt(edge, opportunity_config.min_edge_for_report) THEN [none |-> TRUE]
        ELSE IF Lt(confidence_score.overall_score,
                   opportunity_config.min_confidence_score) THEN [none |-> TRUE]
        ELSE [none |-> FALSE,
              market_id |-> market.id,
              model_probability |-> model_prob,
              market_probability |-> market_prob,
              edge |-> edge,
              confidence_score |-> confidence_score,
              liquidity_factor |-> liquidity_factor,
              opportunity_score |->
                  Mul(Mul(edge, confidence_score.overall_score), liquidity_factor),
              recommended_action |-> recommendation.action,
              recommended_outcome |-> recommendation.outcome]

\* analyze_opportunity: none = TRUE for the return value None, otherwise the
\* Opportunity (its red_flags and green_flags, lists of report texts, left out)
AnalyzeOpportunityResult(market, research) ==
    LET model_prob == research.yes_probability
        market_prob == market.outcome_prices[1]
        edge == AnalyzerEdge(model_prob, market_prob)
        confidence_score == CalculateConfidenceScore(research)
        liquidity_factor == RMin(One, Div(FromInt(market.liquidity), FromInt(10000)))
        opportunity_score ==
            Mul(Mul(edge, confidence_score.overall_score), liquidity_factor)
        recommendation ==
            GenerateRecommendation(model_prob, market_prob, edge, confidence_score)
    IN  IF Lt(edge, opportunity_config.min_edge_for_report) THEN [none |-> TRUE]
        ELSE IF Lt(confidence_score.overall_score,
                   opportunity_config.min_confidence_score) THEN [none |-> TRUE]
        ELSE IF Lt(opportunity_score, opportunity_config.min_opportunity_score)
             THEN [none |-> TRUE]
        ELSE [none |-> FALSE,
              market_id |-> market.id,
              model_probability |-> model_prob,
              market_probability |-> market_prob,
              edge |-> edge,
              confidence_score |-> confidence_score,
              liquidity_factor |-> liquidity_factor,
              opportunity_score |-> opportunity_score,
              recommended_action |-> recommendation.action,
              recommended_outcome |-> recommendation.outcome]

\* sorted(..., reverse=True) is stable: x goes behind every opportunity whose
\* score is at least its own, the ones that came before it in the input
RECURSIVE InsertRanked(_, _)
InsertRanked(ranked, x) ==
    IF ranked = << >> THEN <<x>>
    ELSE IF Ge(Head(ranked).opportunity_score, x.opportunity_score)
         THEN <<Head(ranked)>> \o InsertRanked(Tail(ranked), x)
         ELSE <<x>> \o ranked

\* rank_opportunities
RECURSIVE RankOpportunities(_)
RankOpportunities(opportunities) ==
    IF opportunities = << >> THEN << >>
    ELSE InsertRanked(
             RankOpportunities(SubSeq(opportunities, 1, Len(opportunities) - 1)),
             opportunities[Len(opportunities)])

----------------------------------------------------------------------------
(* RiskManager                                                             *)

\* RiskManager.__init__: the defaults, which BaseStrategy.__init__ keeps
max_drawdown_threshold == Rat(15, 100)

\* update_portfolio_value keeps the last 252 snapshots
HistoryCap == 252

\* update_portfolio_value raises ZeroDivisionError, before it assigns anything,
\* when the last snapshot's value is 0 (daily return) or when the value does
\* not exceed a peak of 0 (drawdown)
UpdateRaises(history, peak, current_value) ==
    \/ Len(history) > 0 /\ IsZero(history[Len(history)].value)
    \/ ~ Gt(current_value, peak) /\ IsZero(peak)

\* faulty variant: max_drawdown follows the current drawdown instead of its maximum
UpdatedDrawdown_NoMax(peak, maxdd, current_value) ==
    IF Gt(current_value, peak)
    THEN [peak_value |-> current_value, current_drawdown |-> Zero,
          max_drawdown |-> maxdd]
    ELSE [peak_value |-> peak,
          current_drawdown |-> Div(Sub(peak, current_value), peak),
          max_drawdown |-> Div(Sub(peak, current_value), peak)]

\* faulty variant: the peak follows every value, also a lower one
UpdatedDrawdown_PeakFollows(peak, maxdd, current_value) ==
    IF Gt(current_value, peak)
    THEN [peak_value |-> current_value, current_drawdown |-> Zero,
          max_drawdown |-> maxdd]
    ELSE [peak_value |-> current_value,
          current_drawdown |-> Div(Sub(peak, current_value), peak),
          max_drawdown |-> RMax(maxdd, Div(Sub(peak, current_value), peak))]

\* update_portfolio_value, "Update peak and drawdown"
UpdatedDrawdown(peak, maxdd, current_value) ==
    IF Gt(current_value, peak)
    THEN [peak_value |-> current_value, current_drawdown |-> Zero,
          max_drawdown |-> maxdd]
    ELSE LET dd == Div(Sub(peak, current_value), peak)
         IN  [peak_value |-> peak, current_drawdown |-> dd,
              max_drawdown |-> RMax(maxdd, dd)]

\* update_portfolio_value, the snapshot appended to the history
Snapshot(history, current_value, timestamp, drawdown) ==
    [timestamp |-> timestamp,
     value |-> current_value,
     daily_return |->
         IF Len(history) > 0
         THEN LET previous_value == history[Len(history)].value
              IN  Div(Sub(current_value, previous_value), previous_value)
         ELSE Zero,
     drawdown |-> drawdown]

\* faulty variant: the oldest snapshots are kept, the newest one is dropped
LastSnapshots_KeepOldest(history) ==
    IF Len(history) > HistoryCap
    THEN SubSeq(history, 1, HistoryCap)
    ELSE history

\* self.portfolio_history[-252:]
LastSnapshots(history) ==
    IF Len(history) > HistoryCap
    THEN SubSeq(history, Len(history) - HistoryCap + 1, Len(history))
    ELSE history

\* the fields of a RiskManager that update_portfolio_value assigns
FreshRiskState ==
    [portfolio_history |-> << >>, peak_value |-> Zero,
     current_drawdown |-> Zero, max_drawdown |-> Zero]

\* faulty variant: the peak is updated before the daily return is computed, so
\* a call that fails on the daily return has already moved the peak
FailedUpdate_PeakFirst(s, current_value) ==
    IF Gt(current_value, s.peak_value)
    THEN [s EXCEPT !.peak_value = current_value, !.current_drawdown = Zero]
    ELSE s

\* the fields as a call of update_portfolio_value that raises leaves them: both
\* divisions are evaluated before the first assignment to a field
FailedUpdate(s, current_value) == s

\* update_portfolio_value as a function of the fields: a call that raises
\* leaves them as they are
UpdatedRiskState(s, current_value, timestamp) ==
    IF UpdateRaises(s.portfolio_history, s.peak_value, current_value)
    THEN FailedUpdate(s, current_value)
    ELSE LET u == UpdatedDrawdown(s.peak_value, s.max_drawdown, current_value)
         IN  [portfolio_history |->
                  LastSnapshots(Append(s.portfolio_history,
                      Snapshot(s.portfolio_history, current_value, timestamp,
                               u.current_drawdown))),
              peak_value |-> u.peak_value,
              current_drawdown |-> u.current_drawdown,
              max_drawdown |-> u.max_drawdown]

\* the fields after update_portfolio_value(calls[i].value, calls[i].timestamp)
\* for i = lo, ..., hi in this order, starting from the fields s (the test on
\* `half` makes TLC evaluate the first half before it enters the second, which
\* keeps the evaluation shallow for a history of 252 snapshots)
RECURSIVE FedInto(_, _, _, _)
FedInto(s, calls, lo, hi) ==
    IF lo > hi THEN s
    ELSE IF lo = hi THEN UpdatedRiskState(s, calls[lo].value, calls[lo].timestamp)
    ELSE LET mid == (lo + hi) \div 2
             half == FedInto(s, calls, lo, mid)
         IN  IF half = half THEN FedInto(half, calls, mid + 1, hi) ELSE s

\* a new RiskManager after update_portfolio_value(values[i], 1), i = 1, 2, ...
RiskStateAfter(values) ==
    FedInto(FreshRiskState,
            [i \in DOMAIN values |-> [value |-> values[i], timestamp |-> 1]],
            1, Len(values))

\* faulty variant: only the drawdown decides whether to reduce positions
ShouldReducePositions_DrawdownOnly(risk_metrics) ==
    Gt(risk_metrics.current_drawdown, Mul(max_drawdown_threshold, Rat(8, 10)))

\* should_reduce_positions
ShouldReducePositions(risk_metrics) ==
    \/ Gt(risk_metrics.current_drawdown, Mul(max_drawdown_threshold, Rat(8, 10)))
    \/ Lt(risk_metrics.sharpe_ratio, Zero)
    \/ Gt(risk_metrics.volatility, One)

\* faulty variant: the Sharpe factor has no floor of its own
PositionReductionFactor_SharpeUnfloored(risk_metrics) ==
    IF ~ ShouldReducePositions(risk_metrics) THEN One
    ELSE LET drawdown_factor ==
                 RMax(Rat(5, 10),
                      Sub(One, Div(risk_metrics.current_drawdown,
                                   max_drawdown_threshold)))
             sharpe_factor == RMin(One, Div(risk_metrics.sharpe_ratio, One))
             volatility_factor ==
                 RMax(Rat(5, 10), Sub(One, risk_metrics.volatility))
             reduction_factor ==
                 RMin(RMin(drawdown_factor, sharpe_factor), volatility_factor)
         IN  RMax(Rat(1, 10), reduction_factor)

\* get_position_reduction_factor
PositionReductionFactor(risk_metrics) ==
    IF ~ ShouldReducePositions(risk_metrics) THEN One
    ELSE LET drawdown_factor ==
                 RMax(Rat(5, 10),
                      Sub(One, Div(risk_metrics.current_drawdown,
                                   max_drawdown_threshold)))
             sharpe_factor ==
                 RMax(Rat(3, 10), RMin(One, Div(risk_metrics.sharpe_ratio, One)))
             volatility_factor ==
                 RMax(Rat(5, 10), Sub(One, risk_metrics.volatility))
             reduction_factor ==
                 RMin(RMin(drawdown_factor, sharpe_factor), volatility_factor)
         IN  RMax(Rat(1, 10), reduction_factor)

\* RiskManager.__init__: var_confidence and risk_limits['min_sharpe_ratio']
var_confidence == Rat(95, 100)
min_sharpe_ratio == Rat(5, 10)

\* The statistics of calculate_risk_metrics. The mean and the percentile are
\* exact; the standard deviation is taken over deviations rounded to
\* thousandths and its square root is rounded up to thousandths, which stands
\* for the floating-point np.std and np.sqrt: it is 0 exactly when all the
\* returns are equal.
RECURSIVE SumSeq(_)
SumSeq(xs) == IF xs = << >> THEN Zero ELSE Add(xs[1], SumSeq(Tail(xs)))

\* np.mean
Mean(xs) == Div(SumSeq(xs), FromInt(Len(xs)))

\* x in thousandths, rounded to the nearest integer
Thousandths(x) == (2000 * x.n + x.d) \div (2 * x.d)

\* the smallest k in lo..hi with k * k >= m
RECURSIVE SqrtSearch(_, _, _)
SqrtSearch(m, lo, hi) ==
    IF lo >= hi THEN lo
    ELSE LET mid == (lo + hi) \div 2
         IN  IF mid * mid >= m THEN SqrtSearch(m, lo, mid)
             ELSE SqrtSearch(m, mid + 1, hi)

RECURSIVE SumSquares(_)
SumSquares(qs) == IF qs = << >> THEN 0 ELSE qs[1] * qs[1] + SumSquares(Tail(qs))

\* np.std(daily_returns) * np.sqrt(252)
AnnualizedStd(daily_returns) ==
    LET mean == Mean(daily_returns)
        deviations == [i \in DOMAIN daily_returns |->
                          Thousandths(Sub(daily_returns[i], mean))]
        squares == SumSquares(deviations)
    IN  Rat(SqrtSearch((squares * 252) \div Len(daily_returns), 0, 46340), 1000)

\* np.percentile(a, q) with linear interpolation, q a rational in 0..100
Percentile(a, q) ==
    LET sorted == SortSeq(a, Lt)
        pos == Mul(Div(q, FromInt(100)), FromInt(Len(a) - 1))
        lo == pos.n \div pos.d
        frac == Sub(pos, FromInt(lo))
    IN  IF lo + 2 > Len(a) THEN sorted[lo + 1]
        ELSE Add(sorted[lo + 1], Mul(frac, Sub(sorted[lo + 2], sorted[lo + 1])))

\* the RiskMetrics returned for a history of fewer than 2 snapshots
ZeroRiskMetrics ==
    [portfolio_value |-> Zero, daily_return |-> Zero, cumulative_return |-> Zero,
     volatility |-> Zero, sharpe_ratio |-> Zero, max_drawdown |-> Zero,
     current_drawdown |-> Zero, var_95 |-> Zero, max_position_weight |-> Zero,
     concentration_ratio |-> Zero]

\* calculate_risk_metrics raises ZeroDivisionError when the first snapshot of a
\* history of 2 or more has value 0 (cumulative return)
MetricsOfHistoryRaises(history) ==
    Len(history) >= 2 /\ IsZero(history[1].value)

\* faulty variant: one snapshot is taken for enough history
RiskMetricsOfHistory_OneIsEnough(history, maxdd, drawdown) ==
    IF Len(history) < 1 THEN ZeroRiskMetrics
    ELSE [ZeroRiskMetrics EXCEPT !.portfolio_value = history[Len(history)].value,
                                 !.max_drawdown = maxdd,
                                 !.current_drawdown = drawdown]

\* faulty variant: the returns include the 0 recorded with the first snapshot
RiskMetricsOfHistory_AllReturns(history, maxdd, drawdown) ==
    IF Len(history) < 2 THEN ZeroRiskMetrics
    ELSE LET current_value == history[Len(history)].value
             initial_value == history[1].value
             daily_returns == [i \in 1..Len(history) |-> history[i].daily_return]
             cumulative_return ==
                 Div(Sub(current_value, initial_value), initial_value)
             volatility == IF Len(daily_returns) > 1
                           THEN AnnualizedStd(daily_returns) ELSE Zero
             mean_return == Mul(Mean(daily_returns), FromInt(252))
             sharpe_ratio == IF Gt(volatility, Zero)
                             THEN Div(mean_return, volatility) ELSE Zero
             var_95 == Percentile(daily_returns,
                                  Mul(Sub(One, var_confidence), FromInt(100)))
         IN  [portfolio_value |-> current_value,
              daily_return |-> daily_returns[Len(daily_returns)],
              cumulative_return |-> cumulative_return,
              volatility |-> volatility,
              sharpe_ratio |-> sharpe_ratio,
              max_drawdown |-> maxdd,
              current_drawdown |-> drawdown,
              var_95 |-> var_95,
              max_position_weight |-> Zero,
              concentration_ratio |-> Zero]

\* calculate_risk_metrics, when it does not raise
RiskMetricsOfHistory(history, maxdd, drawdown) ==
    IF Len(history) < 2 THEN ZeroRiskMetrics
    ELSE LET current_value == history[Len(history)].value
             initial_value == history[1].value
             daily_returns == [i \in 1..(Len(history) - 1) |->
                                  history[i + 1].daily_return]
             cumulative_return ==
                 Div(Sub(current_value, initial_value), initial_value)
             volatility == IF Len(daily_returns) > 1
                           THEN AnnualizedStd(daily_returns) ELSE Zero
             mean_return == Mul(Mean(daily_returns), FromInt(252))
             sharpe_ratio == IF Gt(volatility, Zero)
                             THEN Div(mean_return, volatility) ELSE Zero
             var_95 == Percentile(daily_returns,
                                  Mul(Sub(One, var_confidence), FromInt(100)))
         IN  [portfolio_value |-> current_value,
              daily_return |-> daily_returns[Len(daily_returns)],
              cumulative_return |-> cumulative_return,
              volatility |-> volatility,
              sharpe_ratio |-> sharpe_ratio,
              max_drawdown |-> maxdd,
              current_drawdown |-> drawdown,
              var_95 |-> var_95,
              max_position_weight |-> Zero,
              concentration_ratio |-> Zero]

\* faulty variant: the drawdown limit is checked against the largest drawdown
RiskLimitViolations_MaxDrawdown(risk_metrics) ==
    (IF Gt(risk_metrics.max_drawdown, max_drawdown_threshold)
     THEN <<"drawdown">> ELSE << >>)
    \o (IF Lt(risk_metrics.sharpe_ratio, min_sharpe_ratio)
        THEN <<"sharpe">> ELSE << >>)
    \o (IF Gt(risk_metrics.volatility, Rat(5, 10))
        THEN <<"volatility">> ELSE << >>)

\* faulty variant: the Sharpe limit is skipped while the volatility is 0
RiskLimitViolations_SharpeIfVolatile(risk_metrics) ==
    (IF Gt(risk_metrics.current_drawdown, max_drawdown_threshold)
     THEN <<"drawdown">> ELSE << >>)
    \o (IF Gt(risk_metrics.volatility, Zero)
           /\ Lt(risk_metrics.sharpe_ratio, min_sharpe_ratio)
        THEN <<"sharpe">> ELSE << >>)
    \o (IF Gt(risk_metrics.volatility, Rat(5, 10))
        THEN <<"volatility">> ELSE << >>)

\* check_risk_limits: the limits violated, in the order they are checked
RiskLimitViolations(risk_metrics) ==
    (IF Gt(risk_metrics.current_drawdown, max_drawdown_threshold)
     THEN <<"drawdown">> ELSE << >>)
    \o (IF Lt(risk_metrics.sharpe_ratio, min_sharpe_ratio)
        THEN <<"sharpe">> ELSE << >>)
    \o (IF Gt(risk_metrics.volatility, Rat(5, 10))
        THEN <<"volatility">> ELSE << >>)

\* check_risk_limits: (no violation, violations)
CheckedRiskLimits(risk_metrics) ==
    [ok |-> RiskLimitViolations(risk_metrics) = << >>,
     violations |-> RiskLimitViolations(risk_metrics)]

\* Float comparisons.  The quantities that check_position_limits compares with
\* its limits are results of float multiplications and divisions, which
\* deviate from the exact value by a rounding error in either direction or not
\* at all.  A comparison x > limit of the code comes out by the exact values
\* unless they are equal; then the direction of the rounding error decides.
RoundingDirections == {-1, 0, 1}

Exceeds(x, limit, direction) == Gt(x, limit) \/ (x = limit /\ direction > 0)

\* check_position_limits(allocations, total_capital) of a RiskManager built with
\* max_position_size and max_total_allocation: the violations, in the order
\* they are checked; rounding.weight and rounding.total are the directions of the
\* rounding errors of the position weights and of the total allocation ratio
PositionLimitViolations(allocations, capital, max_position_size_, max_total_allocation_, rounding) ==
    LET position_weight ==
            Table([m \in DOMAIN allocations |-> Div(RAbs(allocations[m]), capital)])
        over == {m \in DOMAIN allocations :
                    Exceeds(position_weight[m], max_position_size_, rounding.weight)}
        total_allocation_ratio == Div(SumAbs(allocations), capital)
        concentration_ratio ==
            SumOver(Table([m \in DOMAIN allocations |->
                              Mul(position_weight[m], position_weight[m])]),
                    DOMAIN allocations)
    IN  (IF over # {} THEN <<"position">> ELSE << >>)
        \o (IF Exceeds(total_allocation_ratio, max_total_allocation_, rounding.total)
            THEN <<"total">> ELSE << >>)
        \o (IF allocations # << >> /\ Gt(concentration_ratio, Rat(5, 10))
            THEN <<"concentration">> ELSE << >>)

----------------------------------------------------------------------------
(* Strategy instances side by side (BaseStrategy, StrategyTester).  Each   *)
(* instance holds a PortfolioAllocator and a RiskManager.  A Python list   *)
(* is an object that several fields may refer to: the field                *)
(* portfolio_history holds a reference into `lists`, append changes the    *)
(* list in place, an assignment binds the field to another list.           *)

\* no strategy instance has been built
NoStrategies == [lists |-> << >>, of |-> << >>, alone |-> << >>]

\* a reference that no list has yet
NewRef(lists) ==
    CHOOSE r \in 1..(Cardinality(DOMAIN lists) + 1) :
        /\ r \notin DOMAIN lists
        /\ \A q \in 1..(Cardinality(DOMAIN lists) + 1) : q \notin DOMAIN lists => r <= q

\* the lists that some instance still refers to
Referenced(lists, of) ==
    Table([r \in {of[i].portfolio_history : i \in DOMAIN of} |-> lists[r]])

\* the fields of one newly built instance, its history bound to the list `ref`
NewInstance(name, capital, ref) ==
    [strategy_type |-> name, total_capital |-> capital,
     config |-> strategy_config(name),
     portfolio_history |-> ref, peak_value |-> Zero,
     current_drawdown |-> Zero, max_drawdown |-> Zero]

\* the same instance with the list itself in place of the reference
Fields(instance, lists) ==
    [instance EXCEPT !.portfolio_history = lists[instance.portfolio_history]]

\* faulty variant: the history list is created once and shared by the instances
NewStrategies_SharedHistory(names, capital) ==
    LET of == Table([i \in DOMAIN names |-> NewInstance(names[i], capital, 1)])
        lists == Table([r \in {1} |-> << >>])
    IN  [lists |-> lists, of |-> of,
         alone |-> Table([i \in DOMAIN names |-> Fields(of[i], lists)])]

\* XStrategy(capital) for each name: BaseStrategy.__init__ builds a
\* PortfolioAllocator and a RiskManager, whose __init__ creates the list
NewStrategies(names, capital) ==
    LET of == Table([i \in DOMAIN names |-> NewInstance(names[i], capital, i)])
        lists == Table([r \in DOMAIN names |-> << >>])
    IN  [lists |-> lists, of |-> of,
         alone |-> Table([i \in DOMAIN names |-> Fields(of[i], lists)])]

\* the risk fields of an instance that runs alone, after an operation on it
AloneAfter(instance, s) ==
    [instance EXCEPT !.portfolio_history = s.portfolio_history,
                     !.peak_value = s.peak_value,
                     !.current_drawdown = s.current_drawdown,
                     !.max_drawdown = s.max_drawdown]

RiskFields(instance) ==
    [portfolio_history |-> instance.portfolio_history,
     peak_value |-> instance.peak_value,
     current_drawdown |-> instance.current_drawdown,
     max_drawdown |-> instance.max_drawdown]

\* strategies[i].risk_manager.update_portfolio_value(current_value, timestamp),
\* a call that does not raise, on the instances st
UpdatedStrategies(st, i, current_value, timestamp) ==
    LET t == st.of[i]
        ref == t.portfolio_history
        history == st.lists[ref]
        u == UpdatedDrawdown(t.peak_value, t.max_drawdown, current_value)
        appended == [st.lists EXCEPT ![ref] =
                        Append(history, Snapshot(history, current_value, timestamp,
                                                 u.current_drawdown))]
        cut == Len(appended[ref]) > HistoryCap
        kept == IF cut THEN NewRef(appended) ELSE ref
        lists == IF cut
                 THEN (kept :> LastSnapshots(appended[ref])) @@ appended
                 ELSE appended
        of == [st.of EXCEPT ![i] =
                  [t EXCEPT !.portfolio_history = kept,
                            !.peak_value = u.peak_value,
                            !.current_drawdown = u.current_drawdown,
                            !.max_drawdown = u.max_drawdown]]
    IN  [lists |-> Referenced(lists, of), of |-> of,
         alone |-> [st.alone EXCEPT ![i] =
                       AloneAfter(st.alone[i],
                           UpdatedRiskState(RiskFields(st.alone[i]),
                                            current_value, timestamp))]]

\* strategies[i].risk_manager.reset_risk_tracking()
ResetStrategies(st, i) ==
    LET kept == NewRef(st.lists)
        lists == (kept :> << >>) @@ st.lists
        of == [st.of EXCEPT ![i] =
                  [st.of[i] EXCEPT !.portfolio_history = kept,
                                   !.peak_value = Zero,
                                   !.current_drawdown = Zero,
                                   !.max_drawdown = Zero]]
    IN  [lists |-> Referenced(lists, of), of |-> of,
         alone |-> [st.alone EXCEPT ![i] = AloneAfter(st.alone[i], FreshRiskState)]]

----------------------------------------------------------------------------
(* Inputs of the allocator                                                 *)

\* the largest number of opportunities in one batch
MaxBatch == 4

\* MarketOpportunity as the strategies build it: edge = estimated - price
Opp(price, estimate, confidence, volatility, liquidity) ==
    [current_price |-> price, estimated_probability |-> estimate,
     confidence |-> confidence, edge |-> Sub(estimate, price),
     volatility |-> volatility, liquidity_score |-> liquidity]

OppChoices == {
    Opp(Rat(40, 100), Rat(60, 100), 8, Rat(10, 100), One),        \* edge 0.20
    Opp(Rat(80, 100), Rat(55, 100), 8, Rat(20, 100), One),        \* edge -0.25, large
    Opp(Rat(50, 100), Rat(57, 100), 6, Rat(10, 100), Rat(8, 10)), \* edge 0.07
    Opp(Rat(50, 100), Rat(52, 100), 9, Rat(10, 100), One),        \* edge 0.02
    Opp(Zero, Rat(50, 100), 8, Rat(10, 100), One),                \* price 0
    Opp(One, Rat(50, 100), 8, Rat(10, 100), One) }                \* price 1

\* a batch: one opportunity per market, the market ids being 1..Len(batch)
WithIds(choice) == Table([i \in DOMAIN choice |-> [market_id |-> i] @@ choice[i]])

\* the capital of the demonstrations and of the scenarios
Capitals == {FromInt(50)}

\* pre-limit positions handed to _apply_position_limits directly
PositionChoices == {FromInt(25), FromInt(-25), Rat(10, 3), FromInt(12), FromInt(-4)}

\* inputs of analyze_opportunity: (model probability, market price) pairs,
\* research qualities and market liquidities
ProbabilityPairs == {
    <<Rat(52, 100), Rat(50, 100)>>,      \* edge  0.02
    <<Rat(58, 100), Rat(50, 100)>>,      \* edge  0.08
    <<Rat(70, 100), Rat(50, 100)>>,      \* edge  0.20
    <<Rat(30, 100), Rat(50, 100)>>,      \* edge -0.20
    <<Rat(56, 100), Rat(60, 100)>> }     \* edge -0.04

Src(credibility, domain) == [credibility |-> credibility, domain |-> domain]

SourceLists == {
    << >>,
    <<Src(5, "a"), Src(2, "a")>>,
    <<Src(5, "a"), Src(5, "b"), Src(4, "c"), Src(5, "d"), Src(5, "e")>> }

InformationQualities == {"HIGH", "MEDIUM", "LOW"}
ConfidenceLevels == {"HIGH", "MEDIUM_HIGH", "MEDIUM", "LOW"}
ReasoningLengths == {150, 300, 600, 1200}
Liquidities == {2000, 10000, 50000}

\* strategy names handed to the constructors, and the constructors
RequestedNames == StrategyNames \cup {"momentum", "Balanced"}
ConstructionPaths == {"PortfolioAllocator", "EnhancedTrader"}

\* the largest number of opportunities handed to rank_opportunities
MaxRanked == 3

\* an Opportunity as analyze_opportunity builds it: the fields that ranking can
\* depend on, with opportunity_score = edge * confidence * liquidity_factor
Ranked(id, edge, confidence, liquidity_factor) ==
    [market_id |-> id, edge |-> edge,
     confidence_score |-> [overall_score |-> confidence],
     liquidity_factor |-> liquidity_factor,
     opportunity_score |-> Mul(Mul(edge, confidence), liquidity_factor)]

RankChoices == {
    Ranked(1, Rat(10, 100), Rat(6, 10), One),             \* score 0.06
    Ranked(2, Rat(20, 100), Rat(6, 10), Rat(5, 10)),      \* score 0.06, larger edge
    Ranked(3, Rat(10, 100), Rat(8, 10), Rat(75, 100)),    \* score 0.06, more confident
    Ranked(4, Rat(15, 100), Rat(6, 10), One) }            \* score 0.09

\* the largest number of update_portfolio_value calls that return
MaxUpdates == 4

\* portfolio values and timestamps handed to update_portfolio_value
ValueChoices == {FromInt(0), FromInt(90), FromInt(95), FromInt(100), FromInt(110)}
Timestamps == {1, 2}

\* the instances run side by side: their strategy names and their capital,
\* the values fed to them, and the longest history an instance is fed
Instances == 1..2
NamePairs == {<<"conservative", "balanced">>, <<"balanced", "balanced">>,
              <<"aggressive", "conservative">>}
InstanceCapitals == {Rat(50, 3)}
InstanceValues == {FromInt(0), FromInt(90), FromInt(100)}
MaxInstanceHistory == 2

\* the number of update_portfolio_value calls beyond the cap of the history
MaxBeyondCap == 1

\* a long run: a first value followed by a steady 100, one snapshot short of
\* the cap
LongRuns ==
    {<<first>> \o [i \in 1..(HistoryCap - 2) |-> FromInt(100)] :
        first \in {FromInt(100), FromInt(110)}}

\* RiskMetrics handed to the risk queries: the fields they read
DrawdownChoices == {Zero, Rat(5, 100), Rat(10, 100), Rat(125, 1000), Rat(15, 100),
                    Rat(20, 100), One}
SharpeChoices == {FromInt(-1), Zero, Rat(2, 10), Rat(4, 10), Rat(5, 10), One,
                  FromInt(2)}
VolatilityChoices == {Zero, Rat(3, 10), Rat(6, 10), Rat(12, 10)}

----------------------------------------------------------------------------
(* Actions                                                                 *)

Init ==
    /\ strategy_type \in StrategyNames
    /\ total_capital \in Capitals
    /\ config = strategy_config(strategy_type)
    /\ portfolio_history = << >>
    /\ peak_value = Zero
    /\ current_drawdown = Zero
    /\ max_drawdown = Zero
    /\ fed = << >>
    /\ ret = [op |-> "none"]
    /\ strategies = NoStrategies
    /\ trader_strategy_type = strategy_type

\* The engine is synchronous: a call runs to its end, its caller takes the result
\* (Return), and only then is the next call made.
Idle == ret.op = "none"

\* a constructor that raised has built no engine on which a call could be made
ConstructionFailed == ret.op = "__init__" /\ ret.raised

Return ==
    /\ ~ Idle
    /\ ~ ConstructionFailed
    /\ ret' = [op |-> "none"]
    /\ UNCHANGED <<allocator_vars, risk_vars, strategies, trader_strategy_type>>

\* PortfolioAllocator.allocate_capital(opportunities)
AllocateCapital ==
    /\ Idle
    /\ \E k \in 0..MaxBatch : \E choice \in [1..k -> OppChoices] :
          LET opps == WithIds(choice)
          IN  ret' = [op |-> "allocate_capital", opportunities |-> opps]
                        @@ AllocationOf(opps, config, total_capital)
    /\ UNCHANGED <<allocator_vars, risk_vars, strategies, trader_strategy_type>>

\* OpportunityAnalyzer.analyze_opportunity(market, research)
AnalyzeOpportunity ==
    /\ Idle
    /\ \E pp \in ProbabilityPairs, sources \in SourceLists,
          iq \in InformationQualities, cl \in ConfidenceLevels,
          rl \in ReasoningLengths, liq \in Liquidities :
          LET market == [id |-> 1, outcome_prices |-> <<pp[2]>>, liquidity |-> liq]
              research == [yes_probability |-> pp[1], sources |-> sources,
                           information_quality |-> iq, confidence_level |-> cl,
                           reasoning_length |-> rl]
          IN  ret' = [op |-> "analyze_opportunity", market |-> market,
                      research |-> research,
                      result |-> AnalyzeOpportunityResult(market, research)]
    /\ UNCHANGED <<allocator_vars, risk_vars, strategies, trader_strategy_type>>

\* OpportunityAnalyzer.rank_opportunities(opportunities), on distinct opportunities
RankOpportunitiesCall ==
    /\ Idle
    /\ \E k \in 0..MaxRanked : \E opportunities \in [1..k -> RankChoices] :
          /\ \A i, j \in 1..k : opportunities[i] = opportunities[j] => i = j
          /\ ret' = [op |-> "rank_opportunities", opportunities |-> opportunities,
                     result |-> RankOpportunities(opportunities)]
    /\ UNCHANGED <<allocator_vars, risk_vars, strategies, trader_strategy_type>>

\* PortfolioAllocator._apply_position_limits(kelly_positions), called on its own
ApplyLimits ==
    /\ Idle
    /\ \E k \in 1..2 : \E kp \in [1..k -> PositionChoices] :
          ret' = [op |-> "_apply_position_limits", kelly_positions |-> kp,
                  result |-> ApplyPositionLimits(kp, config, total_capital)]
    /\ UNCHANGED <<allocator_vars, risk_vars, strategies, trader_strategy_type>>

NextEngine ==
    \/ AllocateCapital
    \/ AnalyzeOpportunity
    \/ RankOpportunitiesCall
    \/ ApplyLimits
    \/ Return

SpecEngine == Init /\ [][NextEngine]_vars

\* The engine right after a constructor call, which returned or raised.  A
\* constructor that raised leaves no object: the fields hold what was assigned
\* before the error, config is the empty function.
InitConstruct ==
    \E name \in RequestedNames, capital \in Capitals, path \in ConstructionPaths :
        LET built == Constructed(path, name)
        IN  /\ strategy_type = name
            /\ total_capital = capital
            /\ config = IF built.raised THEN << >> ELSE built.config
            /\ portfolio_history = << >>
            /\ peak_value = Zero
            /\ current_drawdown = Zero
            /\ max_drawdown = Zero
            /\ fed = << >>
            /\ ret = IF built.raised
                     THEN [op |-> "__init__", path |-> path, raised |-> TRUE,
                           error |-> built.error]
                     ELSE [op |-> "__init__", path |-> path, raised |-> FALSE]
            /\ strategies = NoStrategies
            /\ trader_strategy_type = strategy_type

SpecConstruct == InitConstruct /\ [][NextEngine]_vars

\* RiskManager.update_portfolio_value(current_value, timestamp), while fewer
\* than `limit` calls have returned
UpdateCall(limit) ==
    /\ Idle
    /\ Len(fed) < limit
    /\ \E current_value \in ValueChoices, timestamp \in Timestamps :
          IF UpdateRaises(portfolio_history, peak_value, current_value)
          THEN LET s == FailedUpdate([portfolio_history |-> portfolio_history,
                                          peak_value |-> peak_value,
                                          current_drawdown |-> current_drawdown,
                                          max_drawdown |-> max_drawdown],
                                         current_value)
               IN  /\ portfolio_history' = s.portfolio_history
                   /\ peak_value' = s.peak_value
                   /\ current_drawdown' = s.current_drawdown
                   /\ max_drawdown' = s.max_drawdown
                   /\ fed' = fed
                   /\ ret' = [op |-> "update_portfolio_value",
                              current_value |-> current_value,
                              timestamp |-> timestamp, raised |-> TRUE]
          ELSE LET u == UpdatedDrawdown(peak_value, max_drawdown, current_value)
               IN  /\ peak_value' = u.peak_value
                   /\ current_drawdown' = u.current_drawdown
                   /\ max_drawdown' = u.max_drawdown
                   /\ portfolio_history' =
                         LastSnapshots(Append(portfolio_history,
                             Snapshot(portfolio_history, current_value, timestamp,
                                      u.current_drawdown)))
                   /\ fed' = Append(fed, current_value)
                   /\ ret' = [op |-> "update_portfolio_value",
                              current_value |-> current_value,
                              timestamp |-> timestamp, raised |-> FALSE]
    /\ UNCHANGED <<allocator_vars, strategies, trader_strategy_type>>

UpdatePortfolioValue == UpdateCall(MaxUpdates)

\* RiskManager.reset_risk_tracking()
ResetRiskTracking ==
    /\ Idle
    /\ portfolio_history' = << >>
    /\ peak_value' = Zero
    /\ current_drawdown' = Zero
    /\ max_drawdown' = Zero
    /\ fed' = << >>
    /\ ret' = [op |-> "reset_risk_tracking"]
    /\ UNCHANGED <<allocator_vars, strategies, trader_strategy_type>>

\* RiskManager.calculate_risk_metrics()
CalculateRiskMetrics ==
    /\ Idle
    /\ ret' = IF MetricsOfHistoryRaises(portfolio_history)
              THEN [op |-> "calculate_risk_metrics", raised |-> TRUE]
              ELSE [op |-> "calculate_risk_metrics", raised |-> FALSE,
                    result |-> RiskMetricsOfHistory(portfolio_history, max_drawdown,
                                                    current_drawdown)]
    /\ UNCHANGED <<allocator_vars, risk_vars, strategies, trader_strategy_type>>

\* the caller holds the RiskMetrics that calculate_risk_metrics just returned
MetricsInHand == ret.op = "calculate_risk_metrics" /\ ~ ret.raised

\* RiskManager.check_risk_limits(risk_metrics), on the metrics just calculated
CheckRiskLimits ==
    /\ MetricsInHand
    /\ ret' = [op |-> "check_risk_limits", risk_metrics |-> ret.result,
               result |-> CheckedRiskLimits(ret.result)]
    /\ UNCHANGED <<allocator_vars, risk_vars, strategies, trader_strategy_type>>

\* RiskManager.get_position_reduction_factor(risk_metrics), on the metrics just
\* calculated
GetPositionReductionFactorOfCalculated ==
    /\ MetricsInHand
    /\ ret' = [op |-> "get_position_reduction_factor", risk_metrics |-> ret.result,
               result |-> PositionReductionFactor(ret.result)]
    /\ UNCHANGED <<allocator_vars, risk_vars, strategies, trader_strategy_type>>

NextRisk ==
    \/ UpdatePortfolioValue
    \/ ResetRiskTracking
    \/ CalculateRiskMetrics
    \/ CheckRiskLimits
    \/ GetPositionReductionFactorOfCalculated
    \/ Return

SpecRisk == Init /\ [][NextRisk]_vars

\* a RiskManager that has been fed a long run
InitAtCap ==
    /\ strategy_type \in StrategyNames
    /\ total_capital \in Capitals
    /\ config = strategy_config(strategy_type)
    /\ \E run \in LongRuns :
          LET s == RiskStateAfter(run)
          IN  /\ portfolio_history = s.portfolio_history
              /\ peak_value = s.peak_value
              /\ current_drawdown = s.current_drawdown
              /\ max_drawdown = s.max_drawdown
              /\ fed = run
    /\ ret = [op |-> "none"]
    /\ strategies = NoStrategies
    /\ trader_strategy_type = strategy_type

UpdatePortfolioValueAtCap == UpdateCall(HistoryCap + MaxBeyondCap)

NextAtCap == UpdatePortfolioValueAtCap \/ Return

SpecRiskAtCap == InitAtCap /\ [][NextAtCap]_vars

\* the RiskMetrics of a query: the three fields the queries read, the others 0
RiskMetricsOf(drawdown, sharpe, volatility) ==
    [portfolio_value |-> Zero, daily_return |-> Zero, cumulative_return |-> Zero,
     volatility |-> volatility, sharpe_ratio |-> sharpe, max_drawdown |-> drawdown,
     current_drawdown |-> drawdown, var_95 |-> Zero, max_position_weight |-> Zero,
     concentration_ratio |-> Zero]

\* RiskManager.get_position_reduction_factor(risk_metrics)
GetPositionReductionFactor ==
    /\ Idle
    /\ \E dd \in DrawdownChoices, sh \in SharpeChoices, vol \in VolatilityChoices :
          LET risk_metrics == RiskMetricsOf(dd, sh, vol)
          IN  ret' = [op |-> "get_position_reduction_factor",
                      risk_metrics |-> risk_metrics,
                      result |-> PositionReductionFactor(risk_metrics)]
    /\ UNCHANGED <<allocator_vars, risk_vars, strategies, trader_strategy_type>>

\* the queries of the risk manager, which read none of its mutable fields
NextQueries == GetPositionReductionFactor \/ Return

SpecQueries == Init /\ [][NextQueries]_vars

\* the instances of a StrategyTester, newly built; the engine of the other
\* specifications is left as it was built
InitStrategies ==
    /\ strategy_type = "balanced"
    /\ total_capital \in Capitals
    /\ config = strategy_config(strategy_type)
    /\ portfolio_history = << >>
    /\ peak_value = Zero
    /\ current_drawdown = Zero
    /\ max_drawdown = Zero
    /\ fed = << >>
    /\ ret = [op |-> "none"]
    /\ \E names \in NamePairs, capital \in InstanceCapitals :
          strategies = NewStrategies(names, capital)
    /\ trader_strategy_type = strategy_type

\* update_portfolio_value on the RiskManager of one instance
StrategyUpdate ==
    /\ Idle
    /\ \E i \in Instances, current_value \in InstanceValues :
          LET t == strategies.of[i]
              history == strategies.lists[t.portfolio_history]
          IN  /\ Len(history) < MaxInstanceHistory
              /\ IF UpdateRaises(history, t.peak_value, current_value)
                 THEN /\ ret' = [op |-> "update_portfolio_value", instance |-> i,
                                 current_value |-> current_value, raised |-> TRUE]
                      /\ UNCHANGED strategies
                 ELSE /\ ret' = [op |-> "update_portfolio_value", instance |-> i,
                                 current_value |-> current_value, raised |-> FALSE]
                      /\ strategies' = UpdatedStrategies(strategies, i, current_value, 1)
    /\ UNCHANGED <<allocator_vars, risk_vars, trader_strategy_type>>

\* reset_risk_tracking on the RiskManager of one instance
StrategyReset ==
    /\ Idle
    /\ \E i \in Instances :
          /\ ret' = [op |-> "reset_risk_tracking", instance |-> i]
          /\ strategies' = ResetStrategies(strategies, i)
    /\ UNCHANGED <<allocator_vars, risk_vars, trader_strategy_type>>

\* allocate_capital on the PortfolioAllocator of one instance
StrategyAllocate ==
    /\ Idle
    /\ \E i \in Instances, choice \in [1..1 -> OppChoices] :
          LET opps == WithIds(choice)
              t == strategies.of[i]
          IN  ret' = [op |-> "allocate_capital", instance |-> i,
                      opportunities |-> opps]
                        @@ AllocationOf(opps, t.config, t.total_capital)
    /\ UNCHANGED <<allocator_vars, risk_vars, strategies, trader_strategy_type>>

NextStrategies == StrategyUpdate \/ StrategyReset \/ StrategyAllocate \/ Return

SpecStrategies == InitStrategies /\ [][NextStrategies]_vars

\* a strategy of the StrategyTester, with its third of the capital
InitStrategy ==
    /\ strategy_type \in StrategyNames
    /\ total_capital \in InstanceCapitals
    /\ config = strategy_config(strategy_type)
    /\ portfolio_history = << >>
    /\ peak_value = Zero
    /\ current_drawdown = Zero
    /\ max_drawdown = Zero
    /\ fed = << >>
    /\ ret = [op |-> "none"]
    /\ strategies = NoStrategies
    /\ trader_strategy_type = strategy_type

\* generate_trades has returned the allocations of allocate_capital
TradesInHand == ret.op = "allocate_capital" /\ ~ ret.raised

\* step 3 of BaseStrategy.execute_strategy:
\* risk_manager.check_position_limits(trades, config.capital), the risk manager
\* built with the max_position_size and max_total_allocation of the strategy
CheckPositionLimits ==
    /\ TradesInHand
    /\ \E rounding \in [weight : RoundingDirections, total : RoundingDirections] :
          LET violations ==
                  PositionLimitViolations(ret.allocations, total_capital,
                                          config.max_position_size,
                                          config.max_total_allocation, rounding)
          IN  ret' = [op |-> "check_position_limits",
                      opportunities |-> ret.opportunities,
                      allocations |-> ret.allocations,
                      rounding |-> rounding,
                      result |-> [is_valid |-> violations = << >>,
                                  violations |-> violations]]
    /\ UNCHANGED <<allocator_vars, risk_vars, strategies, trader_strategy_type>>

NextExecute == AllocateCapital \/ CheckPositionLimits \/ Return

SpecExecute == InitStrategy /\ [][NextExecute]_vars

\* what the construction of a strategy depends on besides its name:
\* BaseStrategy.__init__ begins with PerplexityResearchAgent(), which raises
\* ValueError when PERPLEXITY_API_KEY is not set
Environments == {"ready", "no_api_key"}

\* _initialize_strategy(strategy_type, capital) in an environment: the new
\* strategy, or the exception of the name or of the constructor
NewStrategy(strategy_type_, environment) ==
    LET built == InitializeStrategy(strategy_type_)
    IN  IF built.raised THEN built
        ELSE IF environment = "no_api_key"
        THEN [raised |-> TRUE, error |-> "ValueError"]
        ELSE built

\* EnhancedTrader.switch_strategy(new_strategy_type); a new strategy comes
\* with a new PortfolioAllocator and a new RiskManager
SwitchStrategy ==
    /\ Idle
    /\ \E new_strategy_type \in RequestedNames, environment \in Environments :
          LET call == [op |-> "switch_strategy",
                       new_strategy_type |-> new_strategy_type,
                       environment |-> environment]
          IN  IF new_strategy_type \notin {"conservative", "balanced", "aggressive"}
              THEN /\ ret' = call @@ [result |-> FALSE]
                   /\ UNCHANGED <<allocator_vars, risk_vars, trader_strategy_type>>
              ELSE LET built == NewStrategy(new_strategy_type, environment)
                   IN  /\ trader_strategy_type' = new_strategy_type
                       /\ IF built.raised
                          THEN /\ ret' = call @@ [result |-> FALSE]
                               /\ UNCHANGED <<allocator_vars, risk_vars>>
                          ELSE /\ ret' = call @@ [result |-> TRUE]
                               /\ strategy_type' = new_strategy_type
                               /\ total_capital' = total_capital
                               /\ config' = built.config
                               /\ portfolio_history' = FreshRiskState.portfolio_history
                               /\ peak_value' = FreshRiskState.peak_value
                               /\ current_drawdown' = FreshRiskState.current_drawdown
                               /\ max_drawdown' = FreshRiskState.max_drawdown
                               /\ fed' = << >>
    /\ UNCHANGED strategies

NextTrader == SwitchStrategy \/ AllocateCapital \/ Return

\* an EnhancedTrader, its strategy switched between allocations
SpecTrader == Init /\ [][NextTrader]_vars

\* every operation of the engine
Next == NextEngine \/ NextRisk \/ NextQueries

Spec == Init /\ [][Next]_vars

----------------------------------------------------------------------------
(* Properties of the allocator and the analyzer, checked under SpecEngine  *)

\* the last call was allocate_capital and it returned an AllocationResult
Allocated == ret.op = "allocate_capital" /\ ~ ret.raised

\* the locals of that call
CallFiltered == FilterOpportunities(ret.opportunities, config)
CallKelly == CalculateKellyPositions(CallFiltered, config, total_capital)
CallCapped ==
    Table([m \in DOMAIN CallKelly |-> CapPosition(CallKelly[m], config, total_capital)])
CallScaled == Gt(SumAbs(CallCapped), Mul(config.max_total_allocation, total_capital))

\* C1: capital conservation: whatever the batch, the amounts allocated (in
\* absolute value) and the unallocated capital add up to the total capital.
C1_CapitalConservation ==
    Allocated =>
        Add(SumAbs(ret.allocations), ret.unallocated_capital) = total_capital

\* a batch with a degenerate price and a short position among its allocations
C1_Witness ==
    /\ Allocated
    /\ \E i \in DOMAIN ret.opportunities : DegeneratePrice(ret.opportunities[i])
    /\ \E m \in DOMAIN ret.allocations : Lt(ret.allocations[m], Zero)
    /\ \E m \in DOMAIN ret.allocations : Gt(ret.allocations[m], Zero)
    /\ Lt(ret.unallocated_capital, total_capital)

\* C2: position bound: every final amount is, in absolute value, at most
\* max_position_size * total_capital, with or without aggregate scaling.
C2_PositionBound ==
    Allocated =>
        \A m \in DOMAIN ret.allocations :
            Le(RAbs(ret.allocations[m]), Mul(config.max_position_size, total_capital))

\* a Kelly size beyond the cap was clamped to it, and no scaling followed
C2_Witness ==
    /\ Allocated
    /\ ~ CallScaled
    /\ \E m \in DOMAIN ret.allocations :
          /\ Gt(RAbs(CallKelly[m]), Mul(config.max_position_size, total_capital))
          /\ RAbs(ret.allocations[m]) = Mul(config.max_position_size, total_capital)

\* C3: aggregate bound: the final amounts add up, in absolute value, to at
\* most max_total_allocation * total_capital.
C3_AggregateBound ==
    Allocated =>
        Le(SumAbs(ret.allocations), Mul(config.max_total_allocation, total_capital))

\* the clamped positions exceeded the aggregate cap and were scaled onto it
C3_Witness ==
    /\ Allocated
    /\ CallScaled
    /\ SumAbs(ret.allocations) = Mul(config.max_total_allocation, total_capital)

\* Kelly sizing followed by limit enforcement of the call's batch under the
\* caps of config and each safety factor: the final amounts, and whether the
\* aggregate scaling pass ran
WithFactor(cfg, k) == [cfg EXCEPT !.kelly_safety_factor = k]
KellyFactors == {strategy_config(s).kelly_safety_factor : s \in StrategyNames}

ByFactor ==
    LET filtered == CallFiltered
    IN  Table([k \in KellyFactors |->
            LET cfg == WithFactor(config, k)
                kp == CalculateKellyPositions(filtered, cfg, total_capital)
                capped == Table([m \in DOMAIN kp |->
                                    CapPosition(kp[m], cfg, total_capital)])
            IN  [amounts |-> ApplyPositionLimits(kp, cfg, total_capital),
                 scaled |-> Gt(SumAbs(capped),
                               Mul(cfg.max_total_allocation, total_capital))]])

\* C4 as claimed: for a fixed batch, capital and caps, a strictly smaller
\* kelly_safety_factor never yields a larger |amount| for any market.
C4_MonotoneSafetyFactor ==
    ret.op = "allocate_capital" =>
        LET by == ByFactor
        IN  \A k1 \in KellyFactors, k2 \in KellyFactors :
                Lt(k1, k2) =>
                    \A m \in DOMAIN by[k1].amounts :
                        Le(RAbs(by[k1].amounts[m]), RAbs(by[k2].amounts[m]))

\* C4 amended: a strictly smaller kelly_safety_factor never yields a larger
\* |amount| for any market when the aggregate scaling pass does not run under
\* the larger factor, and it never yields a larger sum of |amounts|.
C4_MonotoneUnlessScaled ==
    ret.op = "allocate_capital" =>
        LET by == ByFactor
        IN  \A k1 \in KellyFactors, k2 \in KellyFactors :
                Lt(k1, k2) =>
                    /\ ~ by[k2].scaled =>
                          \A m \in DOMAIN by[k1].amounts :
                              Le(RAbs(by[k1].amounts[m]), RAbs(by[k2].amounts[m]))
                    /\ Le(SumAbs(by[k1].amounts), SumAbs(by[k2].amounts))

\* a batch of two sized markets, not scaled under the larger factor, whose
\* amounts are strictly smaller under the smaller factor
C4_Witness ==
    /\ ret.op = "allocate_capital"
    /\ LET by == ByFactor
       IN  \E k1 \in KellyFactors, k2 \in KellyFactors :
              /\ Lt(k1, k2)
              /\ ~ by[k2].scaled
              /\ Cardinality(DOMAIN by[k1].amounts) >= 2
              /\ \E m \in DOMAIN by[k1].amounts :
                    Lt(RAbs(by[k1].amounts[m]), RAbs(by[k2].amounts[m]))

\* the call of scenario B: balanced preset, capital 50, two positions of 25
ScenarioB ==
    /\ ret.op = "_apply_position_limits"
    /\ strategy_type = "balanced"
    /\ total_capital = FromInt(50)
    /\ ret.kelly_positions = <<FromInt(25), FromInt(25)>>

\* C5 as claimed: scenario B scales both positions by 40/50, to 20 each.
C5_ScenarioB ==
    ScenarioB => ret.result = <<FromInt(20), FromInt(20)>>

\* C5 amended: in scenario B each position of 25 is first clamped to
\* max_position_size * capital = 0.20 * 50 = 10; the sum 20 does not exceed
\* the aggregate cap 40, no scaling runs, and both final positions equal 10.
C5_ScenarioBClamped ==
    ScenarioB =>
        /\ ret.result = <<FromInt(10), FromInt(10)>>
        /\ Mul(config.max_total_allocation, total_capital) = FromInt(40)
        /\ Le(SumAbs(ret.result), FromInt(40))

C5_Witness == ScenarioB /\ DOMAIN ret.result = {1, 2}

\* the batch of scenario A: one opportunity, price 0.40, estimate 0.60, that
\* passes the thresholds of the balanced preset
ScenarioA ==
    /\ ret.op = "allocate_capital"
    /\ strategy_type = "balanced"
    /\ total_capital = FromInt(50)
    /\ Len(ret.opportunities) = 1
    /\ ret.opportunities[1].current_price = Rat(40, 100)
    /\ ret.opportunities[1].estimated_probability = Rat(60, 100)
    /\ ret.opportunities[1].confidence >= 5
    /\ Ge(ret.opportunities[1].liquidity_score, Rat(5, 10))

RemoveAt(seq, i) == SubSeq(seq, 1, i - 1) \o SubSeq(seq, i + 1, Len(seq))

C9_ThresholdRejection ==
    /\ Allocated =>
          \A i \in DOMAIN ret.opportunities :
              Lt(RAbs(ret.opportunities[i].edge), config.min_edge_threshold)
                  => ret.opportunities[i].market_id \notin DOMAIN ret.allocations
    /\ ret.op = "analyze_opportunity" =>
          (Lt(RAbs(Sub(ret.research.yes_probability, ret.market.outcome_prices[1])),
              opportunity_config.min_edge_for_report)
              => ret.result.none)

\* an opportunity of edge 0.02, high confidence and full liquidity, rejected
\* by the balanced preset (threshold 0.05) next to an allocated market
C9_Witness ==
    /\ Allocated
    /\ strategy_type = "balanced"
    /\ DOMAIN ret.allocations # {}
    /\ \E i \in DOMAIN ret.opportunities :
          /\ ret.opportunities[i].edge = Rat(2, 100)
          /\ ret.opportunities[i].confidence >= config.min_confidence
          /\ ret.opportunities[i].liquidity_score = One
          /\ ret.opportunities[i].market_id \notin DOMAIN ret.allocations

\* the maximum of a non-empty sequence of values
RECURSIVE LargestValue(_)
LargestValue(values) ==
    IF Len(values) = 1 THEN values[1]
    ELSE RMax(LargestValue(SubSeq(values, 1, Len(values) - 1)), values[Len(values)])

\* the drawdown of the last value of a sequence from the maximum of the sequence
DrawdownAfter(values) ==
    Div(Sub(LargestValue(values), values[Len(values)]), LargestValue(values))

\* the largest drawdown after any non-empty prefix of a sequence
RECURSIVE LargestDrawdown(_)
LargestDrawdown(values) ==
    IF Len(values) = 1 THEN DrawdownAfter(values)
    ELSE RMax(LargestDrawdown(SubSeq(values, 1, Len(values) - 1)),
              DrawdownAfter(values))

\* C8: drawdown tracking: after any sequence of positive values fed to
\* update_portfolio_value on a fresh RiskManager, peak_value is the maximum
\* value seen, current_drawdown is (peak_value - last value)/peak_value (0 when
\* the last value set a new peak), and max_drawdown is the largest
\* current_drawdown reached after any prefix; [100, 110, 90, 95] gives
\* peak_value 110, current_drawdown 15/110 and max_drawdown 20/110.
C8_DrawdownTracking ==
    /\ (Len(fed) > 0 /\ \A i \in DOMAIN fed : Gt(fed[i], Zero)) =>
          /\ peak_value = LargestValue(fed)
          /\ current_drawdown = Div(Sub(peak_value, fed[Len(fed)]), peak_value)
          /\ (\A i \in 1..(Len(fed) - 1) : Gt(fed[Len(fed)], fed[i]))
                => current_drawdown = Zero
          /\ max_drawdown = LargestDrawdown(fed)
    /\ fed = <<FromInt(100), FromInt(110), FromInt(90), FromInt(95)>> =>
          /\ peak_value = FromInt(110)
          /\ current_drawdown = Rat(15, 110)
          /\ max_drawdown = Rat(20, 110)

\* the fourth update of the sequence 100, 110, 90, 95 has returned, and the
\* largest drawdown lies in the past
C8_Witness ==
    /\ ret.op = "update_portfolio_value"
    /\ ~ ret.raised
    /\ fed = <<FromInt(100), FromInt(110), FromInt(90), FromInt(95)>>
    /\ Len(portfolio_history) = 4
    /\ Gt(max_drawdown, current_drawdown)

\* a call of get_position_reduction_factor has returned
FactorReturned == ret.op = "get_position_reduction_factor"

\* max(0.10, min(drawdown factor, Sharpe factor, volatility factor)) of a
\* RiskMetrics, each factor from its own field
MinimumOfFactors(risk_metrics) ==
    LET d == Sub(One, Div(risk_metrics.current_drawdown, Rat(15, 100)))
        drawdown_part == IF Lt(d, Rat(1, 2)) THEN Rat(1, 2) ELSE d
        sharpe_part == IF Lt(risk_metrics.sharpe_ratio, Rat(3, 10)) THEN Rat(3, 10)
                       ELSE IF Gt(risk_metrics.sharpe_ratio, One) THEN One
                       ELSE risk_metrics.sharpe_ratio
        v == Sub(One, risk_metrics.volatility)
        volatility_part == IF Lt(v, Rat(1, 2)) THEN Rat(1, 2) ELSE v
        smallest == IF Le(drawdown_part, sharpe_part) /\ Le(drawdown_part, volatility_part)
                    THEN drawdown_part
                    ELSE IF Le(sharpe_part, volatility_part) THEN sharpe_part
                    ELSE volatility_part
    IN  IF Lt(smallest, Rat(1, 10)) THEN Rat(1, 10) ELSE smallest

\* the drawdown is above 80% of the threshold 0.15, or the Sharpe ratio is
\* negative, or the volatility is above 1
ReductionCalledFor(risk_metrics) ==
    \/ Gt(risk_metrics.current_drawdown, Rat(12, 100))
    \/ Lt(risk_metrics.sharpe_ratio, Zero)
    \/ Gt(risk_metrics.volatility, One)

\* C10 as stated: for every risk-metrics input, get_position_reduction_factor
\* returns max(0.10, min(drawdown_factor, sharpe_factor, volatility_factor)),
\* and the result is never below 0.10 and never above 1.0.
C10_ReductionFactor ==
    FactorReturned =>
        /\ ret.result = MinimumOfFactors(ret.risk_metrics)
        /\ Ge(ret.result, Rat(1, 10))
        /\ Le(ret.result, One)

\* C10, amended: get_position_reduction_factor returns 1.0 when
\* should_reduce_positions is false (drawdown at most 80% of the threshold,
\* Sharpe ratio not negative, volatility at most 1), and otherwise
\* max(0.10, min(drawdown_factor, sharpe_factor, volatility_factor)); the
\* result is never below 0.10 and never above 1.0.
C10_ReductionFactorWhenReducing ==
    FactorReturned =>
        /\ ReductionCalledFor(ret.risk_metrics)
              => ret.result = MinimumOfFactors(ret.risk_metrics)
        /\ ~ ReductionCalledFor(ret.risk_metrics) => ret.result = One
        /\ Ge(ret.result, Rat(1, 10))
        /\ Le(ret.result, One)

\* a negative Sharpe ratio alone calls for a reduction, and the Sharpe factor
\* 0.3 is the smallest of the three
C10_Witness ==
    /\ FactorReturned
    /\ Lt(ret.risk_metrics.sharpe_ratio, Zero)
    /\ ret.risk_metrics.current_drawdown = Rat(5, 100)
    /\ ret.risk_metrics.volatility = Rat(3, 10)
    /\ ret.result = Rat(3, 10)

\* the three conditions of should_reduce_positions on the metrics of the call
NoReductionCalledFor ==
    /\ ~ Gt(ret.risk_metrics.current_drawdown, Rat(12, 100))
    /\ ~ Lt(ret.risk_metrics.sharpe_ratio, Zero)
    /\ ~ Gt(ret.risk_metrics.volatility, One)

\* C27: the position reduction factor is two-valued in range: it is exactly
\* 1.0 when should_reduce_positions is false and lies in [0.3, 0.5]
\* otherwise; it is never strictly between 0.5 and 1.0 and never below 0.3, so
\* the floor 0.10 is never the binding bound.
C27_TwoValuedRange ==
    ret.op = "get_position_reduction_factor" =>
        /\ NoReductionCalledFor => ret.result = One
        /\ ~ NoReductionCalledFor =>
              Ge(ret.result, Rat(3, 10)) /\ Le(ret.result, Rat(5, 10))
        /\ ~ (Gt(ret.result, Rat(5, 10)) /\ Lt(ret.result, One))
        /\ ~ Lt(ret.result, Rat(3, 10))
        /\ ret.result # Rat(1, 10)

\* a drawdown beyond the warning level with a Sharpe ratio of 0.4: the factor
\* lies inside the range
C27_Witness ==
    /\ ret.op = "get_position_reduction_factor"
    /\ Gt(ret.risk_metrics.current_drawdown, Rat(12, 100))
    /\ ret.risk_metrics.sharpe_ratio = Rat(4, 10)
    /\ ret.result = Rat(4, 10)

\* a call of rank_opportunities has returned
Ranking == ret.op = "rank_opportunities"

\* C14: ranking: rank_opportunities returns a permutation of its input sorted
\* by descending opportunity_score; among opportunities of equal score the one
\* with the larger |edge| comes first, and among those of equal |edge| the one
\* with the larger confidence composite comes first, whatever the input order.
C14_Ranking ==
    Ranking =>
        /\ Len(ret.result) = Len(ret.opportunities)
        /\ \A x \in RankChoices :
              Cardinality({i \in DOMAIN ret.result : ret.result[i] = x})
                  = Cardinality({i \in DOMAIN ret.opportunities :
                                    ret.opportunities[i] = x})
        /\ \A i, j \in DOMAIN ret.result :
              i < j =>
                  LET a == ret.result[i]
                      b == ret.result[j]
                  IN  /\ Ge(a.opportunity_score, b.opportunity_score)
                      /\ a.opportunity_score = b.opportunity_score
                            => Ge(RAbs(a.edge), RAbs(b.edge))
                      /\ (a.opportunity_score = b.opportunity_score
                          /\ RAbs(a.edge) = RAbs(b.edge))
                            => Ge(a.confidence_score.overall_score,
                                  b.confidence_score.overall_score)

\* the liquidity factor, the edge and the composite confidence of a call of
\* analyze_opportunity, from its arguments
CallLiquidityFactor ==
    IF ret.market.liquidity >= 10000 THEN One ELSE Rat(ret.market.liquidity, 10000)

CallEdge ==
    LET d == Sub(ret.research.yes_probability, ret.market.outcome_prices[1])
    IN  IF Lt(d, Zero) THEN Neg(d) ELSE d

CallConfidence == CalculateConfidenceScore(ret.research).overall_score

\* C15: scorer rejection: analyze_opportunity returns None, without raising,
\* if and only if |edge| is below the minimum edge, or the confidence composite
\* is below the minimum confidence, or opportunity_score = |edge| * confidence *
\* min(1, liquidity / 10000) is below the configured floor; otherwise it returns
\* an Opportunity that carries those values.
C15_ScorerRejection ==
    ret.op = "analyze_opportunity" =>
        LET score == Mul(Mul(CallEdge, CallConfidence), CallLiquidityFactor)
            rejected == \/ Lt(CallEdge, Rat(5, 100))
                        \/ Lt(CallConfidence, Rat(5, 10))
                        \/ Lt(score, Rat(3, 100))
        IN  /\ ret.result.none <=> rejected
            /\ ~ ret.result.none =>
                  /\ ret.result.edge = CallEdge
                  /\ ret.result.confidence_score.overall_score = CallConfidence
                  /\ ret.result.liquidity_factor = CallLiquidityFactor
                  /\ ret.result.opportunity_score = score

\* an opportunity of sufficient edge and confidence rejected for its score
C15_Witness ==
    /\ ret.op = "analyze_opportunity"
    /\ ret.result.none
    /\ Ge(CallEdge, Rat(5, 100))
    /\ Ge(CallConfidence, Rat(5, 10))
    /\ Lt(Mul(Mul(CallEdge, CallConfidence), CallLiquidityFactor), Rat(3, 100))

\* the raw position the Kelly formula gives with the odds of the side that is
\* bet: b = 1/price for the priced outcome, b = 1/(1 - price) against it
RawPositionByDirection(opp) ==
    LET b == IF Gt(opp.edge, Zero) THEN Div(One, opp.current_price)
             ELSE Div(One, Sub(One, opp.current_price))
        magnitude == Mul(Mul(Div(RAbs(opp.edge), Sub(b, One)),
                             config.kelly_safety_factor), total_capital)
    IN  IF Gt(opp.edge, Zero) THEN magnitude ELSE Neg(magnitude)

\* C18: Kelly odds by direction: the raw position of an opportunity of
\* positive edge is edge / (1/price - 1) * kelly_safety_factor * total_capital;
\* that of an opportunity of negative edge has the magnitude
\* |edge| / (1/(1 - price) - 1) * kelly_safety_factor * total_capital.
C18_KellyOddsByDirection ==
    Allocated =>
        \A i \in DOMAIN CallFiltered :
            LET opp == CallFiltered[i]
            IN  ~ DegeneratePrice(opp) =>
                    CallKelly[opp.market_id] = RawPositionByDirection(opp)

\* the last call ran _apply_position_limits, on its own or inside
\* allocate_capital; its argument and its result
LimitsRan == ret.op = "_apply_position_limits" \/ Allocated
LimitsInput == IF ret.op = "_apply_position_limits" THEN ret.kelly_positions ELSE CallKelly
LimitsOutput == IF ret.op = "_apply_position_limits" THEN ret.result ELSE ret.allocations

\* a position cut to the per-position cap, its sign kept
ClampedPosition(position) ==
    LET limit == Mul(config.max_position_size, total_capital)
    IN  IF Gt(position, limit) THEN limit
        ELSE IF Lt(position, Neg(limit)) THEN Neg(limit)
        ELSE position

ClampedInput == Table([m \in DOMAIN LimitsInput |-> ClampedPosition(LimitsInput[m])])
AggregateCap == Mul(config.max_total_allocation, total_capital)

\* C19: proportional de-leveraging: when the clamped positions sum, in
\* absolute value, above max_total_allocation * capital, every one of them is
\* multiplied by cap / sum, so the final aggregate is the cap exactly, no
\* market is dropped and the ratio between any two positions is kept; when
\* the sum does not exceed the cap the clamped positions are returned as they are.
C19_ProportionalDeleveraging ==
    LimitsRan =>
        /\ DOMAIN LimitsOutput = DOMAIN LimitsInput
        /\ IF Gt(SumAbs(ClampedInput), AggregateCap)
           THEN /\ \A m \in DOMAIN LimitsInput :
                      LimitsOutput[m] =
                         Mul(ClampedInput[m], Div(AggregateCap, SumAbs(ClampedInput)))
                /\ SumAbs(LimitsOutput) = AggregateCap
                /\ \A m1, m2 \in DOMAIN LimitsInput :
                      Mul(LimitsOutput[m1], ClampedInput[m2])
                         = Mul(LimitsOutput[m2], ClampedInput[m1])
           ELSE LimitsOutput = ClampedInput

\* clamped positions of different sizes and both signs were scaled onto the cap
C19_Witness ==
    /\ LimitsRan
    /\ Gt(SumAbs(ClampedInput), AggregateCap)
    /\ \E m1, m2 \in DOMAIN LimitsInput :
          /\ Gt(ClampedInput[m1], Zero)
          /\ Lt(ClampedInput[m2], Zero)
          /\ RAbs(ClampedInput[m1]) # RAbs(ClampedInput[m2])
          /\ LimitsOutput[m1] # ClampedInput[m1]

\* the clamped positions stayed within the cap and were returned as they are
C19_WitnessUnscaled ==
    /\ ret.op = "_apply_position_limits"
    /\ \E m \in DOMAIN LimitsInput : LimitsInput[m] # ClampedInput[m]
    /\ LimitsOutput = ClampedInput

\* the opportunity of the batch that a market of the allocation belongs to
OpportunityOf(m) ==
    ret.opportunities[CHOOSE i \in DOMAIN ret.opportunities :
                          ret.opportunities[i].market_id = m]

\* C20: direction preservation: for every market of the final allocation,
\* through Kelly sizing, clamping and scaling, the amount is strictly positive
\* exactly when the opportunity's edge is positive and strictly negative
\* exactly when the edge is negative.
C20_DirectionPreservation ==
    Allocated =>
        \A m \in DOMAIN ret.allocations :
            /\ Gt(ret.allocations[m], Zero) <=> Gt(OpportunityOf(m).edge, Zero)
            /\ Lt(ret.allocations[m], Zero) <=> Lt(OpportunityOf(m).edge, Zero)
            /\ Gt(CallKelly[m], Zero) <=> Gt(OpportunityOf(m).edge, Zero)
            /\ Gt(CallCapped[m], Zero) <=> Gt(OpportunityOf(m).edge, Zero)

\* a long position left as sized and a short position clamped, both then scaled
C20_Witness ==
    /\ Allocated
    /\ CallScaled
    /\ \E m1, m2 \in DOMAIN ret.allocations :
          /\ Gt(OpportunityOf(m1).edge, Zero)
          /\ CallCapped[m1] = CallKelly[m1]
          /\ Gt(ret.allocations[m1], Zero)
          /\ Lt(OpportunityOf(m2).edge, Zero)
          /\ CallCapped[m2] # CallKelly[m2]
          /\ Lt(ret.allocations[m2], Zero)

\* C22: signed edge on emitted opportunities: the edge field of every
\* Opportunity that analyze_opportunity returns is model_probability -
\* market_probability with its sign, negative when the model probability is
\* below the market price.
C22_SignedEdge ==
    (ret.op = "analyze_opportunity" /\ ~ ret.result.none) =>
        /\ ret.result.edge =
              Sub(ret.research.yes_probability, ret.market.outcome_prices[1])
        /\ Lt(ret.research.yes_probability, ret.market.outcome_prices[1]) =>
              Lt(ret.result.edge, Zero)

\* C16: configuration fail-fast: constructing the engine with a strategy name
\* other than conservative, balanced or aggressive fails with an error at
\* construction, in PortfolioAllocator.__init__ and in
\* EnhancedTrader._initialize_strategy alike, so no allocate_capital call ever
\* runs under an unknown profile.
C16_FailFast ==
    /\ strategy_type \notin {"conservative", "balanced", "aggressive"} =>
          /\ ret.op = "__init__"
          /\ ret.raised
          /\ ret.error = IF ret.path = "EnhancedTrader" THEN "ValueError"
                         ELSE "KeyError"
    /\ ret.op = "allocate_capital" =>
          strategy_type \in {"conservative", "balanced", "aggressive"}

\* PortfolioAllocator(50, "momentum") has raised
C16_Witness ==
    /\ strategy_type = "momentum"
    /\ ret.op = "__init__"
    /\ ret.path = "PortfolioAllocator"
    /\ ret.raised

----------------------------------------------------------------------------
(* Properties of the risk manager's state, checked under SpecRisk          *)

\* a step that leaves peak_value and max_drawdown at least as large
RiskStateGrows ==
    /\ Le(peak_value, peak_value')
    /\ Le(max_drawdown, max_drawdown')

\* C11 as stated: across any sequence of update_portfolio_value,
\* calculate_risk_metrics, check_risk_limits, get_position_reduction_factor and
\* reset_risk_tracking, peak_value never decreases and max_drawdown never
\* decreases.
C11_MonotoneRiskState == [][RiskStateGrows]_vars

\* C11, amended: peak_value and max_drawdown never decrease across
\* update_portfolio_value, calculate_risk_metrics, check_risk_limits and
\* get_position_reduction_factor; reset_risk_tracking sets both back to 0.
C11_MonotoneUntilReset ==
    [][IF ret'.op = "reset_risk_tracking"
       THEN peak_value' = Zero /\ max_drawdown' = Zero
       ELSE RiskStateGrows]_vars

\* an update below the peak has returned after a deeper drawdown: the peak and
\* the maximum drawdown are those of earlier values
C11_Witness ==
    /\ ret.op = "update_portfolio_value"
    /\ ~ ret.raised
    /\ Len(fed) >= 3
    /\ Lt(ret.current_value, peak_value)
    /\ Gt(current_drawdown, Zero)
    /\ Gt(max_drawdown, current_drawdown)

\* C13: insufficient history: calculate_risk_metrics called with 0 or 1
\* snapshots in the history raises nothing, returns a RiskMetrics whose fields
\* are all zero, and leaves portfolio_history, peak_value, current_drawdown and
\* max_drawdown unchanged.
C13_InsufficientHistory ==
    [][(ret'.op = "calculate_risk_metrics" /\ Len(portfolio_history) < 2) =>
          /\ ~ ret'.raised
          /\ \A field \in DOMAIN ret'.result : ret'.result[field] = Zero
          /\ DOMAIN ret'.result =
                {"portfolio_value", "daily_return", "cumulative_return",
                 "volatility", "sharpe_ratio", "max_drawdown", "current_drawdown",
                 "var_95", "max_position_weight", "concentration_ratio"}
          /\ portfolio_history' = portfolio_history
          /\ peak_value' = peak_value
          /\ current_drawdown' = current_drawdown
          /\ max_drawdown' = max_drawdown]_vars

\* calculate_risk_metrics has returned zeros on a history of one snapshot of
\* value 100
C13_Witness ==
    /\ ret.op = "calculate_risk_metrics"
    /\ ~ ret.raised
    /\ Len(portfolio_history) = 1
    /\ peak_value = FromInt(100)
    /\ ret.result.portfolio_value = Zero

\* a new RiskManager fed the values and timestamps of the snapshots, in order
Replayed(history) == FedInto(FreshRiskState, history, 1, Len(history))

\* C12: restorable risk state: after any sequence of update_portfolio_value
\* calls, more than 252 of them included, replaying the values of the retained
\* snapshot history in order into a fresh RiskManager reproduces peak_value,
\* current_drawdown and max_drawdown.
C12_RestorableRiskState ==
    LET replayed == Replayed(portfolio_history)
    IN  /\ replayed.peak_value = peak_value
        /\ replayed.current_drawdown = current_drawdown
        /\ replayed.max_drawdown = max_drawdown

C23_TimeOrderedHistory ==
    \A j, k \in DOMAIN portfolio_history :
        j < k => portfolio_history[j].timestamp <= portfolio_history[k].timestamp

\* the drawdown levels of a RiskMetrics: BREACH above the threshold 0.15,
\* WARNING above 80% of it
Breach(risk_metrics) == Gt(risk_metrics.current_drawdown, Rat(15, 100))
Warning(risk_metrics) == Gt(risk_metrics.current_drawdown, Rat(12, 100))

\* check_risk_limits reported the drawdown violation
BreachReported(r) ==
    \E k \in DOMAIN r.result.violations : r.result.violations[k] = "drawdown"

\* one step of the risk manager, as far as the drawdown levels go
DrawdownLevelsStep ==
    /\ ret'.op = "check_risk_limits" =>
          /\ BreachReported(ret') <=> Breach(ret'.risk_metrics)
          /\ Warning(ret'.risk_metrics) => ShouldReducePositions(ret'.risk_metrics)
          /\ BreachReported(ret') =>
                Warning(ret'.risk_metrics) /\ ShouldReducePositions(ret'.risk_metrics)
    /\ ret'.op = "get_position_reduction_factor" =>
          (Warning(ret'.risk_metrics) => ret'.result # One)
    /\ (ret'.op = "update_portfolio_value" /\ ~ ret'.raised
          /\ Gt(ret'.current_value, peak_value)) =>
          /\ peak_value' = ret'.current_value
          /\ current_drawdown' = Zero
          /\ max_drawdown' = max_drawdown
          /\ LET after == RiskMetricsOfHistory(portfolio_history', max_drawdown',
                                               current_drawdown')
             IN  MetricsOfHistoryRaises(portfolio_history') \/
                    (~ Breach(after) /\ ~ Warning(after)
                       /\ ~ BreachReported([result |-> CheckedRiskLimits(after)]))

\* C24: drawdown levels: check_risk_limits reports a drawdown violation
\* (BREACH) exactly when current_drawdown > max_drawdown_threshold,
\* should_reduce_positions is true (WARNING) whenever current_drawdown >
\* 0.8 * max_drawdown_threshold, so a reported BREACH implies WARNING; an
\* update that sets a new peak clears both while max_drawdown is retained.
C24_DrawdownLevels == [][DrawdownLevelsStep]_vars

\* a BREACH was reported on the metrics of a history in drawdown
C24_Witness ==
    /\ ret.op = "check_risk_limits"
    /\ BreachReported(ret)
    /\ Len(portfolio_history) >= 2
    /\ Gt(current_drawdown, Rat(15, 100))

\* a new peak after a drawdown beyond the threshold
C24_WitnessRecovery ==
    /\ ret.op = "update_portfolio_value"
    /\ ~ ret.raised
    /\ current_drawdown = Zero
    /\ Gt(max_drawdown, Rat(15, 100))
    /\ peak_value = ret.current_value

\* WARNING without BREACH
C24_WitnessWarning ==
    /\ ret.op = "check_risk_limits"
    /\ Warning(ret.risk_metrics)
    /\ ~ BreachReported(ret)

\* the last snapshot of the history has the value 0
ZeroIsLast ==
    /\ portfolio_history # << >>
    /\ portfolio_history[Len(portfolio_history)].value = Zero

\* a monitor that has recorded nothing since it was built or reset
FreshMonitor ==
    /\ portfolio_history = << >>
    /\ peak_value = Zero
    /\ current_drawdown = Zero
    /\ max_drawdown = Zero

ZeroLockStep ==
    /\ (ZeroIsLast /\ ret'.op = "update_portfolio_value") =>
          /\ ret'.raised
          /\ UNCHANGED <<portfolio_history, peak_value, current_drawdown, max_drawdown>>
    /\ (ZeroIsLast /\ portfolio_history' # portfolio_history) =>
          ret'.op = "reset_risk_tracking"
    /\ (FreshMonitor /\ ret'.op = "update_portfolio_value"
          /\ ret'.current_value = Zero) =>
          /\ ret'.raised
          /\ FreshMonitor'

\* C26: once a snapshot of value 0 is the last entry of the history, every
\* update_portfolio_value call fails with a division by zero before it changes
\* peak_value, current_drawdown, max_drawdown or the history, so nothing more
\* is recorded until reset_risk_tracking; a first update with value 0 on a fresh
\* monitor fails likewise and records nothing.
C26_ZeroLock == [][ZeroLockStep]_vars

\* an update has just failed behind a snapshot of value 0
C26_Witness ==
    /\ ZeroIsLast
    /\ Len(portfolio_history) = 2
    /\ ret.op = "update_portfolio_value"
    /\ ret.raised
    /\ ret.current_value = FromInt(110)

\* the first update of a fresh monitor, with value 0, has failed
C26_WitnessFresh ==
    /\ FreshMonitor
    /\ ret.op = "update_portfolio_value"
    /\ ret.raised
    /\ ret.current_value = Zero

\* C28: startup always flags a limit: while the history holds fewer than 2
\* snapshots, check_risk_limits on the result of calculate_risk_metrics returns
\* is_valid = False with exactly one violation, the Sharpe ratio below the
\* minimum (0 < 0.5), and no drawdown or volatility violation.
C28_StartupFlagsSharpe ==
    (ret.op = "check_risk_limits" /\ Len(portfolio_history) < 2) =>
        /\ ret.risk_metrics.sharpe_ratio = Zero
        /\ ret.result.ok = FALSE
        /\ ret.result.violations = <<"sharpe">>

\* the limits were checked on the metrics of a history of one snapshot
C28_Witness ==
    /\ ret.op = "check_risk_limits"
    /\ Len(portfolio_history) = 1
    /\ ret.result.violations = <<"sharpe">>

\* calculate_risk_metrics has returned a RiskMetrics
MetricsReturned == ret.op = "calculate_risk_metrics" /\ ~ ret.raised

\* the return from the first to the second snapshot
ReturnBetweenTwo ==
    Div(Sub(portfolio_history[2].value, portfolio_history[1].value),
        portfolio_history[1].value)

\* C30: with exactly two snapshots in the history calculate_risk_metrics
\* returns volatility 0 and sharpe_ratio 0 whatever the two values are, while
\* cumulative_return and daily_return are the return between them; a volatility
\* or Sharpe ratio other than 0 is reported only with three snapshots or more.
C30_TwoSnapshots ==
    /\ (ret.op = "calculate_risk_metrics" /\ Len(portfolio_history) = 2) =>
          /\ ~ ret.raised
          /\ ret.result.volatility = Zero
          /\ ret.result.sharpe_ratio = Zero
          /\ ret.result.cumulative_return = ReturnBetweenTwo
          /\ ret.result.daily_return = ReturnBetweenTwo
    /\ (MetricsReturned /\ (ret.result.volatility # Zero
                              \/ ret.result.sharpe_ratio # Zero)) =>
          Len(portfolio_history) >= 3

\* metrics of the two snapshots 100 and 90: return -0.1, volatility 0
C30_Witness ==
    /\ MetricsReturned
    /\ Len(portfolio_history) = 2
    /\ portfolio_history[1].value = FromInt(100)
    /\ portfolio_history[2].value = FromInt(90)
    /\ ret.result.cumulative_return = Rat(-1, 10)
    /\ ret.result.volatility = Zero

\* three snapshots give a volatility and a Sharpe ratio other than 0
C30_WitnessThree ==
    /\ MetricsReturned
    /\ Len(portfolio_history) = 3
    /\ ret.result.volatility # Zero
    /\ ret.result.sharpe_ratio # Zero


----------------------------------------------------------------------------
(* Properties of strategy instances side by side, checked under            *)
(* SpecStrategies                                                          *)

\* C17: instance independence: whatever the interleaving of operations on
\* two strategy instances, the capital, config, portfolio_history,
\* peak_value, current_drawdown and max_drawdown of each are what they are
\* when only its own operations run, in the same order; no operation on one
\* instance changes the state of the other.
C17_InstanceIndependence ==
    \A i \in DOMAIN strategies.of :
        /\ Fields(strategies.of[i], strategies.lists) = strategies.alone[i]
        /\ strategies.of[i].config = strategy_config(strategies.of[i].strategy_type)
        /\ strategies.of[i].total_capital \in InstanceCapitals

\* both instances have been fed, differently, the second one last
C17_Witness ==
    /\ DOMAIN strategies.of = Instances
    /\ Len(Fields(strategies.of[1], strategies.lists).portfolio_history) = 2
    /\ Len(Fields(strategies.of[2], strategies.lists).portfolio_history) = 1
    /\ strategies.of[1].peak_value # strategies.of[2].peak_value
    /\ Gt(strategies.of[1].max_drawdown, Zero)
    /\ ret.op = "update_portfolio_value"
    /\ ret.instance = 2
    /\ ~ ret.raised


----------------------------------------------------------------------------
(* Properties of the risk validation of execute_strategy, checked under    *)
(* SpecExecute                                                             *)

\* C25: allocator output always passes risk validation: for each preset and
\* any batch, check_position_limits of a RiskManager built with the preset's
\* max_position_size and max_total_allocation finds no violation in the
\* allocation that allocate_capital returned, so execute_strategy never
\* discards allocator-produced trades.
C25_AllocationPassesValidation ==
    ret.op = "check_position_limits" =>
        /\ ret.result.is_valid
        /\ ret.result.violations = << >>

\* the aggressive strategy with capital 50/3: one long and three short
\* positions scaled onto the aggregate cap, the total ratio rounded upwards
C25_ScaledOntoCap ==
    /\ ret.op = "check_position_limits"
    /\ strategy_type = "aggressive"
    /\ Len(ret.opportunities) = 4
    /\ ret.opportunities[1].current_price = Rat(40, 100)
    /\ \A i \in 2..4 : ret.opportunities[i].current_price = Rat(80, 100)
    /\ SumAbs(ret.allocations) = Mul(config.max_total_allocation, total_capital)
    /\ ret.rounding.total = 1
    /\ ret.rounding.weight = 0
    /\ ret.result.violations = <<"total">>

----------------------------------------------------------------------------
(* Properties of the EnhancedTrader, checked under SpecTrader              *)

\* the call of switch_strategy that this step makes
Switched == ret'.op = "switch_strategy"

\* C29: switch_strategy is all-or-nothing: a call either returns True with
\* strategy_type and strategy both of the new type, or returns False with
\* strategy_type and strategy both as they were, whether the name is invalid
\* or the construction of the new strategy raises.
C29_SwitchAllOrNothing ==
    [][Switched =>
          \/ /\ ret'.result = TRUE
             /\ trader_strategy_type' = ret'.new_strategy_type
             /\ strategy_type' = ret'.new_strategy_type
             /\ config' = strategy_config(ret'.new_strategy_type)
          \/ /\ ret'.result = FALSE
             /\ trader_strategy_type' = trader_strategy_type
             /\ UNCHANGED <<allocator_vars, risk_vars>>]_vars

============================================================================
